---- MODULE Spec2Model ----
(***************************************************************************)
(* Inventory engine of the tool-inventory demo: the shared DataStore, the  *)
(* AssignmentService transitions (assign / reassign / unassign), the       *)
(* ToolService and EmployeeService reads (filter, search, sort, paging),   *)
(* the CertificateService, all reached through the InventoryAPI facade,    *)
(* and the UTC calendar day the services read as "today".                  *)
(*                                                                         *)
(* Every handler awaits DataStore.simulateDelay before it reads anything,  *)
(* and everything after that await is synchronous, so each call takes      *)
(* effect in one atomic step at the moment its delay elapses.              *)
(***************************************************************************)
EXTENDS Integers, Sequences, FiniteSets, TLC

VARIABLES tools, employees, now, last, run, opts, acc, seed, seedShared, held,
          ui, pending, typing, written, mockTools

vars == <<tools, employees, now, last, run, opts, acc, seed, seedShared, held,
          ui, pending, typing, written, mockTools>>

\* What the caller of the API holds, apart from the observations last and run:
\* the options it pages with, the pages it has collected, the seed objects it
\* constructed the engine from (and whether the engine's store is made of
\* those very objects), and an object a read has handed to it.  seed and
\* held are null while the caller keeps no such object.
paging == <<opts, acc>>
handles == <<seed, seedShared, held>>

\* What the page shows: the state of the table hooks, the handlers that are
\* waiting for the API, and the state of the search hook
screen == <<ui, pending, typing>>

\* What stands beside the API: the assignments its callers were told of by
\* the writes that resolved ok: true, and the store of a MockInventorySystem
\* constructed from the same seed.  written is empty and mockTools is null
\* where nobody keeps them.
aside == <<written, mockTools>>

----------------------------------------------------------------------------
(* Bounds *)

\* Number of consecutive calendar days the clock can take.
MaxDay == 3

Days == 1..MaxDay

\* The day the engine is constructed on; earlier days are in the past.
StartDay == MaxDay - 1

\* Highest page number a caller asks for.
MaxPage == 4

\* Largest of the small page sizes a caller asks for.
MaxAsked == 2

----------------------------------------------------------------------------
(* JavaScript values of the optional Tool fields *)

Null == [tag |-> "null"]
Undefined == [tag |-> "undefined"]
Id(e) == [tag |-> "id", id |-> e]
Str(chars) == [tag |-> "string", chars |-> chars]

\* x == null  (loose equality: null or undefined)
IsNullish(v) == v.tag \in {"null", "undefined"}

\* Truthiness of an optional string (assignedOn && ..., assignedOn || today)
Truthy(v) == v.tag = "string" /\ Len(v.chars) > 0

----------------------------------------------------------------------------
(* Dates: new Date().toISOString().split('T')[0] and string "<" *)

\* Calendar date <<year, month, day>> of the n-th day of the model's clock;
\* the days run across the end of September so that the month changes from
\* one digit to two.
Calendar(n) == IF n <= 2 THEN <<2025, 9, 28 + n>> ELSE <<2025, 10, n - 2>>

\* UTF-16 code units of the characters that occur in a date
Digit(k) == 48 + k
Hyphen == 45

Pad2(k) == <<Digit(k \div 10), Digit(k % 10)>>
Pad4(k) == <<Digit(k \div 1000), Digit((k \div 100) % 10),
             Digit((k \div 10) % 10), Digit(k % 10)>>

\* Variant: month and day written without the leading zero
Unpadded(k) == IF k < 10 THEN <<Digit(k)>> ELSE Pad2(k)
toISOString_Unpadded(n) ==
    LET d == Calendar(n)
    IN  Pad4(d[1]) \o <<Hyphen>> \o Unpadded(d[2]) \o <<Hyphen>> \o Unpadded(d[3])

\* YYYY-MM-DD part of Date.prototype.toISOString
toISOString(n) ==
    LET d == Calendar(n)
    IN  Pad4(d[1]) \o <<Hyphen>> \o Pad2(d[2]) \o <<Hyphen>> \o Pad2(d[3])

\* a < b on JavaScript strings: lexicographic by code unit
RECURSIVE StrLess(_, _)
StrLess(a, b) ==
    IF Len(b) = 0 THEN FALSE
    ELSE IF Len(a) = 0 THEN TRUE
    ELSE IF Head(a) # Head(b) THEN Head(a) < Head(b)
    ELSE StrLess(Tail(a), Tail(b))

\* DataStore.today()
today == Str(toISOString(now))

----------------------------------------------------------------------------
(* Text: a string is the sequence of its UTF-16 code units *)

\* The code units of the identifiers, names, types, models and serial
\* numbers that occur in the stores
Text(s) ==
    CASE s = "T1" -> <<84, 49>>
      [] s = "T2" -> <<84, 50>>
      [] s = "T3" -> <<84, 51>>
      [] s = "T9" -> <<84, 57>>
      [] s = "E1" -> <<69, 49>>
      [] s = "E2" -> <<69, 50>>
      [] s = "E9" -> <<69, 57>>
      [] s = "Alice" -> <<65, 108, 105, 99, 101>>
      [] s = "Bob" -> <<66, 111, 98>>
      [] s = "HydraulicWrench" ->
            <<72, 121, 100, 114, 97, 117, 108, 105, 99, 87, 114, 101, 110, 99, 104>>
      [] s = "Tensioner" -> <<84, 101, 110, 115, 105, 111, 110, 101, 114>>
      [] s = "TorqueGun" -> <<84, 111, 114, 113, 117, 101, 71, 117, 110>>
      [] s = "HW-100" -> <<72, 87, 45, 49, 48, 48>>
      [] s = "TN-100" -> <<84, 78, 45, 49, 48, 48>>
      [] s = "TG-100" -> <<84, 71, 45, 49, 48, 48>>
      [] s = "SN-T1" -> <<83, 78, 45, 84, 49>>
      [] s = "SN-T2" -> <<83, 78, 45, 84, 50>>
      [] s = "SN-T3" -> <<83, 78, 45, 84, 51>>

Space == 32

\* String.prototype.toLowerCase on the letters A-Z
LowerUnit(c) == IF c >= 65 /\ c <= 90 THEN c + 32 ELSE c
toLowerCase(str) == [i \in 1..Len(str) |-> LowerUnit(str[i])]

\* String.prototype.trim
RECURSIVE trimStart(_)
trimStart(str) ==
    IF Len(str) > 0 /\ Head(str) = Space THEN trimStart(Tail(str)) ELSE str

RECURSIVE trimEnd(_)
trimEnd(str) ==
    IF Len(str) > 0 /\ str[Len(str)] = Space
    THEN trimEnd(SubSeq(str, 1, Len(str) - 1))
    ELSE str

trim(str) == trimEnd(trimStart(str))

\* String.prototype.includes
includes(str, part) ==
    \E i \in 0..(Len(str) - Len(part)) : SubSeq(str, i + 1, i + Len(part)) = part

\* String.prototype.localeCompare for the strings of the stores: letters are
\* compared without regard to case, after digits and punctuation; strings
\* that differ only in case put the lower-case letter first.
localeCompare(a, b) ==
    IF StrLess(toLowerCase(a), toLowerCase(b)) THEN -1
    ELSE IF StrLess(toLowerCase(b), toLowerCase(a)) THEN 1
    ELSE IF a = b THEN 0
    ELSE IF StrLess(b, a) THEN -1
    ELSE 1

----------------------------------------------------------------------------
(* Seed data and identifiers *)

ToolIds == {"T1", "T2"}
EmployeeIds == {"E1", "E2"}

\* identifiers a caller can pass: the stored ones and one that is not stored
AnyToolId == ToolIds \cup {"T9"}
AnyEmployeeId == EmployeeIds \cup {"E9"}

EmployeeName(e) == IF e = "E1" THEN "Alice" ELSE "Bob"

\* assignedOn arguments a caller can pass: none, or a date
AssignedOnArgs == {Undefined, Str(toISOString(1))}

\* A seed tool: assignedTo and assignedOn both null, both absent, or both set.
\* T1 is seeded in every such way, T2 as unassigned or as held by E2.
SeedAssignments(t) ==
    IF t = "T1"
    THEN {<<Null, Null>>, <<Undefined, Undefined>>}
             \cup {<<Id(e), Str(toISOString(1))>> : e \in EmployeeIds}
    ELSE {<<Null, Null>>, <<Id("E2"), Str(toISOString(1))>>}

\* Each tool is of another type, so that sorting by type or model is not the
\* order the tools were inserted in.
ToolType(t) ==
    CASE t = "T1" -> "TorqueGun"
      [] t = "T2" -> "HydraulicWrench"
      [] OTHER -> "Tensioner"

ToolModel(t) ==
    CASE t = "T1" -> "TG-100"
      [] t = "T2" -> "HW-100"
      [] OTHER -> "TN-100"

SeedTool(t, due, asg) ==
    [id |-> t,
     type |-> ToolType(t),
     model |-> ToolModel(t),
     serialNumber |-> "SN-" \o t,
     calibrationDueDate |-> Str(toISOString(due)),
     assignedTo |-> asg[1],
     assignedOn |-> asg[2]]

----------------------------------------------------------------------------
(* DataStore *)

toolById(toolId) == IF toolId \in DOMAIN tools THEN tools[toolId] ELSE Null

employeeById(employeeId) ==
    IF employeeId \in DOMAIN employees THEN employees[employeeId] ELSE Null

----------------------------------------------------------------------------
(* AssignmentService: private helpers.  A helper that mutates the tool it  *)
(* is handed returns the tool as it leaves it, next to the result.         *)

ErrOverdue(id) ==
    <<"Tool with ID ", id, " is overdue for calibration and cannot be assigned.">>
ErrNotAssigned(id) ==
    <<"Tool with ID ", id, " is not currently assigned to any employee.">>
ErrNoTool(id) == <<"Tool with ID ", id, " does not exist.">>
ErrNoEmployee(id) == <<"Employee with ID ", id, " does not exist.">>
ErrSameEmployee(toolId, employeeId) ==
    <<"Tool with ID ", toolId, " is already assigned to employee ", employeeId, ".">>
ErrOtherEmployee(toolId, holder) ==
    <<"Tool with ID ", toolId, " is already assigned to another employee: ", holder, ".">>

Fail(error) == [ok |-> FALSE, error |-> error]
Ok(tool) == [ok |-> TRUE, tool |-> tool]

\* Variant: no calibration check
assignToEmployee_NoCalibration(tool, employee, assignedOn) ==
    LET assigned ==
            [tool EXCEPT !.assignedTo = Id(employee.id),
                         !.assignedOn = IF Truthy(assignedOn)
                                        THEN assignedOn ELSE today]
    IN  [tool |-> assigned, result |-> Ok(assigned)]

\* Variant: a tool due today is refused (<= in place of <)
assignToEmployee_DueTodayRefused(tool, employee, assignedOn) ==
    IF ~StrLess(today.chars, tool.calibrationDueDate.chars)
    THEN [tool |-> tool, result |-> Fail(ErrOverdue(tool.id))]
    ELSE LET assigned ==
                 [tool EXCEPT !.assignedTo = Id(employee.id),
                              !.assignedOn = IF Truthy(assignedOn)
                                             THEN assignedOn ELSE today]
         IN  [tool |-> assigned, result |-> Ok(assigned)]

\* Variant: assignedTo is written before the calibration check
assignToEmployee_EarlyWrite(tool, employee, assignedOn) ==
    LET holder == [tool EXCEPT !.assignedTo = Id(employee.id)]
    IN  IF StrLess(tool.calibrationDueDate.chars, today.chars)
        THEN [tool |-> holder, result |-> Fail(ErrOverdue(tool.id))]
        ELSE LET assigned ==
                     [holder EXCEPT !.assignedOn = IF Truthy(assignedOn)
                                                   THEN assignedOn ELSE today]
             IN  [tool |-> assigned, result |-> Ok(assigned)]

\* Variant: assigning also moves the calibration due date to today
assignToEmployee_Recalibrated(tool, employee, assignedOn) ==
    IF StrLess(tool.calibrationDueDate.chars, today.chars)
    THEN [tool |-> tool, result |-> Fail(ErrOverdue(tool.id))]
    ELSE LET assigned ==
                 [tool EXCEPT !.assignedTo = Id(employee.id),
                              !.assignedOn = IF Truthy(assignedOn)
                                             THEN assignedOn ELSE today,
                              !.calibrationDueDate = today]
         IN  [tool |-> assigned, result |-> Ok(assigned)]

assignToEmployee(tool, employee, assignedOn) ==
    IF StrLess(tool.calibrationDueDate.chars, today.chars)
    THEN [tool |-> tool, result |-> Fail(ErrOverdue(tool.id))]
    ELSE LET assigned ==
                 [tool EXCEPT !.assignedTo = Id(employee.id),
                              !.assignedOn = IF Truthy(assignedOn)
                                             THEN assignedOn ELSE today]
         IN  [tool |-> assigned, result |-> Ok(assigned)]

\* Variant: assignedOn is not cleared
unassignFromEmployee_KeepsDate(tool) ==
    IF IsNullish(tool.assignedTo)
    THEN [tool |-> tool, result |-> Fail(ErrNotAssigned(tool.id))]
    ELSE LET freed == [tool EXCEPT !.assignedTo = Null]
         IN  [tool |-> freed, result |-> Ok(freed)]

\* Variant: assignedTo is not cleared
unassignFromEmployee_KeepsHolder(tool) ==
    IF IsNullish(tool.assignedTo)
    THEN [tool |-> tool, result |-> Fail(ErrNotAssigned(tool.id))]
    ELSE LET freed == [tool EXCEPT !.assignedOn = Null]
         IN  [tool |-> freed, result |-> Ok(freed)]

\* Variant: unassigning an unassigned tool succeeds silently
unassignFromEmployee_Silent(tool) ==
    LET freed == [tool EXCEPT !.assignedTo = Null, !.assignedOn = Null]
    IN  IF IsNullish(tool.assignedTo)
        THEN [tool |-> tool, result |-> Ok(tool)]
        ELSE [tool |-> freed, result |-> Ok(freed)]

\* Variant: a tool overdue for calibration cannot be returned
unassignFromEmployee_Calibrated(tool) ==
    IF IsNullish(tool.assignedTo)
    THEN [tool |-> tool, result |-> Fail(ErrNotAssigned(tool.id))]
    ELSE IF StrLess(tool.calibrationDueDate.chars, today.chars)
    THEN [tool |-> tool, result |-> Fail(ErrOverdue(tool.id))]
    ELSE LET freed == [tool EXCEPT !.assignedTo = Null, !.assignedOn = Null]
         IN  [tool |-> freed, result |-> Ok(freed)]

unassignFromEmployee(tool) ==
    IF IsNullish(tool.assignedTo)
    THEN [tool |-> tool, result |-> Fail(ErrNotAssigned(tool.id))]
    ELSE LET freed == [tool EXCEPT !.assignedTo = Null, !.assignedOn = Null]
         IN  [tool |-> freed, result |-> Ok(freed)]

\* Variant: the employee is not looked up in the store
resolveAssignmentInputs_AnyEmployee(toolId, employeeId) ==
    IF toolById(toolId) = Null
    THEN [error |-> ErrNoTool(toolId)]
    ELSE [tool |-> toolById(toolId), employee |-> [id |-> employeeId]]

resolveAssignmentInputs(toolId, employeeId) ==
    IF toolById(toolId) = Null
    THEN [error |-> ErrNoTool(toolId)]
    ELSE IF employeeById(employeeId) = Null
    THEN [error |-> ErrNoEmployee(employeeId)]
    ELSE [tool |-> toolById(toolId), employee |-> employeeById(employeeId)]

isResolved(response) == "error" \notin DOMAIN response

\* Variant: the helper was handed an object of a store of the service's own,
\* which no other service reads
Stored_OwnCopy(out) == [tools |-> tools, result |-> out.result]

\* The store after a helper has mutated the tool object it was handed
Stored(out) == [tools |-> [tools EXCEPT ![out.tool.id] = out.tool],
                result |-> out.result]
Untouched(result) == [tools |-> tools, result |-> result]

----------------------------------------------------------------------------
(* AssignmentService: public operations, as store-and-result pairs *)

\* Variant: only the same-employee check guards the assignment
ServiceAssignTool_NoHolderCheck(toolId, employeeId, assignedOn) ==
    LET maybeResolved == resolveAssignmentInputs(toolId, employeeId)
    IN  IF ~isResolved(maybeResolved)
        THEN Untouched(Fail(maybeResolved.error))
        ELSE LET tool == maybeResolved.tool
                 employee == maybeResolved.employee
             IN  IF tool.assignedTo = Id(employeeId)
                 THEN Untouched(Fail(ErrSameEmployee(toolId, employeeId)))
                 ELSE Stored(assignToEmployee(tool, employee, assignedOn))

ServiceAssignTool(toolId, employeeId, assignedOn) ==
    LET maybeResolved == resolveAssignmentInputs(toolId, employeeId)
    IN  IF ~isResolved(maybeResolved)
        THEN Untouched(Fail(maybeResolved.error))
        ELSE LET tool == maybeResolved.tool
                 employee == maybeResolved.employee
             IN  IF tool.assignedTo = Id(employeeId)
                 THEN Untouched(Fail(ErrSameEmployee(toolId, employeeId)))
                 ELSE IF ~IsNullish(tool.assignedTo)
                 THEN Untouched(Fail(ErrOtherEmployee(toolId, tool.assignedTo.id)))
                 ELSE Stored(assignToEmployee(tool, employee, assignedOn))

\* Variant: reassigning to the current holder is refused, as in assignTool
ServiceReassignTool_RejectsHolder(toolId, employeeId, assignedOn) ==
    LET maybeResolved == resolveAssignmentInputs(toolId, employeeId)
    IN  IF ~isResolved(maybeResolved)
        THEN Untouched(Fail(maybeResolved.error))
        ELSE LET tool == maybeResolved.tool
                 employee == maybeResolved.employee
             IN  IF tool.assignedTo = Id(employeeId)
                 THEN Untouched(Fail(ErrSameEmployee(toolId, employeeId)))
                 ELSE IF IsNullish(tool.assignedTo)
                 THEN Untouched(Fail(ErrNotAssigned(toolId)))
                 ELSE Stored(assignToEmployee(tool, employee, assignedOn))

ServiceReassignTool(toolId, employeeId, assignedOn) ==
    LET maybeResolved == resolveAssignmentInputs(toolId, employeeId)
    IN  IF ~isResolved(maybeResolved)
        THEN Untouched(Fail(maybeResolved.error))
        ELSE LET tool == maybeResolved.tool
                 employee == maybeResolved.employee
             IN  IF IsNullish(tool.assignedTo)
                 THEN Untouched(Fail(ErrNotAssigned(toolId)))
                 ELSE Stored(assignToEmployee(tool, employee, assignedOn))

ServiceUnassignTool(toolId) ==
    IF toolById(toolId) = Null
    THEN Untouched(Fail(ErrNoTool(toolId)))
    ELSE Stored(unassignFromEmployee(toolById(toolId)))

\* Variant: the facade never forwards assignedOn
Forwarded_Dropped(assignedOn) == Undefined

\* InventoryAPI forwards assignedOn only when it is truthy:
\* { toolId, employeeId, ...(assignedOn && { assignedOn }) }
Forwarded(assignedOn) == IF Truthy(assignedOn) THEN assignedOn ELSE Undefined

----------------------------------------------------------------------------
(* Outcome of a call.  A call either resolves with a value or rejects     *)
(* with the error that was thrown inside it.                               *)

Thrown(error) == [threw |-> TRUE, error |-> error]

Resolved(result) == "threw" \notin DOMAIN result

----------------------------------------------------------------------------
(* CertificateService *)

\* !!tool.assignedTo : a non-empty employee id
Held(tool) == tool.assignedTo.tag = "id" /\ tool.assignedTo.id # ""

\* The values generatePDFContent interpolates into the content stream
generatePDFContent(tool) ==
    LET assignedEmployee == IF Held(tool) THEN employeeById(tool.assignedTo.id)
                            ELSE Null
        assignedTo == IF assignedEmployee # Null THEN assignedEmployee.name
                      ELSE "Unassigned"
    IN  [toolId |-> tool.id,
         toolType |-> tool.type,
         model |-> tool.model,
         serialNumber |-> tool.serialNumber,
         calibrationDueDate |-> tool.calibrationDueDate,
         assignedTo |-> assignedTo,
         generatedOn |-> today]

\* Variant: the file is named after the holder as well
Certificate_NamesHolder(tool) ==
    [ok |-> TRUE,
     pdfBlob |-> generatePDFContent(tool),
     filename |-> <<"Calibration_Certificate_", tool.id, "_",
                    tool.calibrationDueDate, "_", tool.assignedTo, ".pdf">>]

Certificate(tool) ==
    [ok |-> TRUE,
     pdfBlob |-> generatePDFContent(tool),
     filename |-> <<"Calibration_Certificate_", tool.id, "_",
                    tool.calibrationDueDate, ".pdf">>]

\* Variant: the tool is used without the null check, and reading a property
\* of null throws
ServiceDownloadCertificate_Unchecked(toolId) ==
    IF toolById(toolId) = Null
    THEN Untouched(Thrown(<<"TypeError: Cannot read properties of null">>))
    ELSE Untouched(Certificate(toolById(toolId)))

ServiceDownloadCertificate(toolId) ==
    IF toolById(toolId) = Null
    THEN Untouched(Fail(ErrNoTool(toolId)))
    ELSE Untouched(Certificate(toolById(toolId)))

----------------------------------------------------------------------------
(* Reading the store.  Objects are handed out by reference: Live(id) is    *)
(* the store's own object for that id, whose fields are whatever the store *)
(* holds at the time they are read.                                        *)

Live(id) == [live |-> id]

LiveAll(ids) == [i \in 1..Len(ids) |-> Live(ids[i])]

\* Object.values(this.tools), Object.values(this.employees): the objects in
\* the order their keys were inserted
ToolKeys == <<"T1", "T2", "T3">>
EmployeeKeys == <<"E1", "E2">>

allToolIds == SelectSeq(ToolKeys, LAMBDA t : t \in DOMAIN tools)
allEmployeeIds == SelectSeq(EmployeeKeys, LAMBDA e : e \in DOMAIN employees)

\* An optional property of an options object, with its destructuring default
Opt(options, key, default) ==
    IF key \in DOMAIN options THEN options[key] ELSE default

\* search && search.trim() !== ''
IsSearch(searchText) == Truthy(searchText) /\ trim(searchText.chars) # <<>>

\* search.toLowerCase().trim()
searchQueryOf(searchText) == trim(toLowerCase(searchText.chars))

MaxPageSize == 1000

ErrPage == <<"Page number must be greater than 0">>
ErrPageSize == <<"Page size must be between 1 and 1000">>

\* Variant: the quotient is rounded down
Ceil_Floor(total, pageSize) == total \div pageSize

\* Math.ceil(total / pageSize)
Ceil(total, pageSize) ==
    IF total % pageSize = 0 THEN total \div pageSize
    ELSE (total \div pageSize) + 1

\* Variant: the element at index end is taken as well
slice_Inclusive(list, start, end) ==
    SubSeq(list, start + 1, IF end + 1 < Len(list) THEN end + 1 ELSE Len(list))

\* Array.prototype.slice(start, end) for 0 <= start <= end
slice(list, start, end) ==
    SubSeq(list, start + 1, IF end < Len(list) THEN end ELSE Len(list))

\* The response built at the end of getToolsPaginated / getEmployeesPaginated
\* (list is evaluated once, as the array the method holds)
Paginated(list, page, pageSize) ==
    LET PageOf(rows) ==
            LET total == Len(rows)
                totalPages == Ceil(total, pageSize)
                start == (page - 1) * pageSize
                end == start + pageSize
            IN  [data |-> LiveAll(slice(rows, start, end)),
                 pagination |-> [current |-> page,
                                 pageSize |-> pageSize,
                                 total |-> total,
                                 totalPages |-> totalPages,
                                 hasNext |-> page < totalPages,
                                 hasPrevious |-> page > 1]]
    IN  CHOOSE response \in {PageOf(rows) : rows \in {list}} : TRUE

----------------------------------------------------------------------------
(* ToolService *)

\* employee.name or employee.id contains the query
employeeMatches(employeeId, searchQuery) ==
    \/ includes(toLowerCase(Text(employees[employeeId].name)), searchQuery)
    \/ includes(toLowerCase(Text(employees[employeeId].id)), searchQuery)

\* Variant: only the tool's own fields are searched
toolMatchesSearch_OwnFields(tool, searchQuery) ==
    \/ includes(toLowerCase(Text(tool.type)), searchQuery)
    \/ includes(toLowerCase(Text(tool.model)), searchQuery)
    \/ includes(toLowerCase(Text(tool.serialNumber)), searchQuery)
    \/ includes(toLowerCase(Text(tool.id)), searchQuery)

\* the predicate filterTools applies for a search
toolMatchesSearch(tool, searchQuery) ==
    \/ includes(toLowerCase(Text(tool.type)), searchQuery)
    \/ includes(toLowerCase(Text(tool.model)), searchQuery)
    \/ includes(toLowerCase(Text(tool.serialNumber)), searchQuery)
    \/ includes(toLowerCase(Text(tool.id)), searchQuery)
    \/ /\ Held(tool)
       /\ tool.assignedTo.id \in DOMAIN employees
       /\ employeeMatches(tool.assignedTo.id, searchQuery)

\* Variant: the search is applied to the whole list, not to the filtered one
filterTools_SearchAll(list, filter, searchText) ==
    IF IsSearch(searchText)
    THEN SelectSeq(list, LAMBDA t : toolMatchesSearch(tools[t], searchQueryOf(searchText)))
    ELSE IF filter = "assigned" THEN SelectSeq(list, LAMBDA t : Held(tools[t]))
    ELSE IF filter = "available" THEN SelectSeq(list, LAMBDA t : ~Held(tools[t]))
    ELSE list

filterTools(list, filter, searchText) ==
    LET filtered ==
            IF filter = "assigned" THEN SelectSeq(list, LAMBDA t : Held(tools[t]))
            ELSE IF filter = "available"
            THEN SelectSeq(list, LAMBDA t : ~Held(tools[t]))
            ELSE list
    IN  IF IsSearch(searchText)
        THEN SelectSeq(filtered,
                 LAMBDA t : toolMatchesSearch(tools[t], searchQueryOf(searchText)))
        ELSE filtered

\* a[sortBy] as a JavaScript value: a string, null or undefined
toolValue(tool, sortBy) ==
    CASE sortBy \in {"id", "type", "model", "serialNumber"} ->
             Str(Text(tool[sortBy]))
      [] sortBy = "assignedTo" ->
             IF tool.assignedTo.tag = "id" THEN Str(Text(tool.assignedTo.id))
             ELSE tool.assignedTo
      [] OTHER -> tool[sortBy]

\* Variant: a tool without a value sorts after the others in either order
compareTools_NullsLast(a, b, sortBy, sortOrder) ==
    LET aValue == toolValue(tools[a], sortBy)
        bValue == toolValue(tools[b], sortBy)
    IN  IF IsNullish(aValue) /\ IsNullish(bValue) THEN 0
        ELSE IF IsNullish(aValue) THEN 1
        ELSE IF IsNullish(bValue) THEN -1
        ELSE IF sortOrder = "asc"
        THEN localeCompare(aValue.chars, bValue.chars)
        ELSE localeCompare(bValue.chars, aValue.chars)

\* The comparator getToolsPaginated sorts with
compareTools(a, b, sortBy, sortOrder) ==
    LET aValue == toolValue(tools[a], sortBy)
        bValue == toolValue(tools[b], sortBy)
    IN  IF IsNullish(aValue) /\ IsNullish(bValue) THEN 0
        ELSE IF IsNullish(aValue) THEN (IF sortOrder = "asc" THEN -1 ELSE 1)
        ELSE IF IsNullish(bValue) THEN (IF sortOrder = "asc" THEN 1 ELSE -1)
        ELSE IF sortOrder = "asc"
        THEN localeCompare(aValue.chars, bValue.chars)
        ELSE localeCompare(bValue.chars, aValue.chars)

\* Array.prototype.sort with that comparator (the sort is stable)
RECURSIVE insertTool(_, _, _, _)
insertTool(sorted, t, sortBy, sortOrder) ==
    IF Len(sorted) = 0 \/ compareTools(sorted[Len(sorted)], t, sortBy, sortOrder) <= 0
    THEN Append(sorted, t)
    ELSE Append(insertTool(SubSeq(sorted, 1, Len(sorted) - 1), t, sortBy, sortOrder),
                sorted[Len(sorted)])

\* (the sorted prefix is computed once)
RECURSIVE sortTools(_, _, _)
sortTools(list, sortBy, sortOrder) ==
    IF Len(list) = 0 THEN <<>>
    ELSE CHOOSE sorted \in
             {insertTool(rest, list[Len(list)], sortBy, sortOrder) :
                 rest \in {sortTools(SubSeq(list, 1, Len(list) - 1),
                                     sortBy, sortOrder)}} : TRUE

\* if (sortBy) { filteredTools.sort(...) }
sortedTools(list, options) ==
    IF "sortBy" \in DOMAIN options
    THEN sortTools(list, options.sortBy, Opt(options, "sortOrder", "asc"))
    ELSE list

\* Variant: a page or page size out of range is clamped into the range
getToolsPaginated_Clamped(options) ==
    LET page == IF options.page < 1 THEN 1 ELSE options.page
        pageSize == IF options.pageSize < 1 THEN 1
                    ELSE IF options.pageSize > MaxPageSize THEN MaxPageSize
                    ELSE options.pageSize
    IN  Paginated(sortedTools(filterTools(allToolIds,
                                          Opt(options, "filter", "all"),
                                          Opt(options, "search", Undefined)),
                              options),
                  page, pageSize)

\* ToolService.getToolsPaginated
getToolsPaginated(options) ==
    IF options.page < 1 THEN Thrown(ErrPage)
    ELSE IF options.pageSize < 1 \/ options.pageSize > MaxPageSize
    THEN Thrown(ErrPageSize)
    ELSE Paginated(sortedTools(filterTools(allToolIds,
                                           Opt(options, "filter", "all"),
                                           Opt(options, "search", Undefined)),
                               options),
                   options.page, options.pageSize)

\* ToolService.getTool
getTool(toolId) == IF toolById(toolId) = Null THEN Null ELSE Live(toolId)

\* Variant: a tool counts as available only when assignedTo is null
getTools_StrictNull(args) ==
    LET filter == Opt(args, "filter", "")
    IN  IF filter = "all" \/ filter = "" THEN LiveAll(allToolIds)
        ELSE IF filter = "assigned"
        THEN LiveAll(SelectSeq(allToolIds, LAMBDA t : Held(tools[t])))
        ELSE IF filter = "available"
        THEN LiveAll(SelectSeq(allToolIds, LAMBDA t : tools[t].assignedTo = Null))
        ELSE Thrown(<<"invalid filter value ", filter>>)

\* ToolService.getTools; args is the argument list, with or without filter
getTools(args) ==
    LET filter == Opt(args, "filter", "")
    IN  IF filter = "all" \/ filter = "" THEN LiveAll(allToolIds)
        ELSE IF filter = "assigned"
        THEN LiveAll(SelectSeq(allToolIds, LAMBDA t : Held(tools[t])))
        ELSE IF filter = "available"
        THEN LiveAll(SelectSeq(allToolIds, LAMBDA t : ~Held(tools[t])))
        ELSE Thrown(<<"invalid filter value ", filter>>)

\* ToolService.search
search(query) ==
    IF ~IsSearch(query) THEN <<>>
    ELSE LiveAll(filterTools(allToolIds, "all", query))

----------------------------------------------------------------------------
(* EmployeeService *)

\* The comparator getEmployeesPaginated sorts with; every Employee field is
\* a string
compareEmployees(a, b, sortBy, sortOrder) ==
    IF sortOrder = "asc"
    THEN localeCompare(Text(employees[a][sortBy]), Text(employees[b][sortBy]))
    ELSE localeCompare(Text(employees[b][sortBy]), Text(employees[a][sortBy]))

RECURSIVE insertEmployee(_, _, _, _)
insertEmployee(sorted, e, sortBy, sortOrder) ==
    IF \/ Len(sorted) = 0
       \/ compareEmployees(sorted[Len(sorted)], e, sortBy, sortOrder) <= 0
    THEN Append(sorted, e)
    ELSE Append(insertEmployee(SubSeq(sorted, 1, Len(sorted) - 1), e, sortBy,
                               sortOrder),
                sorted[Len(sorted)])

RECURSIVE sortEmployees(_, _, _)
sortEmployees(list, sortBy, sortOrder) ==
    IF Len(list) = 0 THEN <<>>
    ELSE insertEmployee(sortEmployees(SubSeq(list, 1, Len(list) - 1), sortBy,
                                      sortOrder),
                        list[Len(list)], sortBy, sortOrder)

matchedEmployees(searchText) ==
    IF IsSearch(searchText)
    THEN SelectSeq(allEmployeeIds,
                   LAMBDA e : employeeMatches(e, searchQueryOf(searchText)))
    ELSE allEmployeeIds

\* EmployeeService.getEmployeesPaginated
getEmployeesPaginated(options) ==
    IF options.page < 1 THEN Thrown(ErrPage)
    ELSE IF options.pageSize < 1 \/ options.pageSize > MaxPageSize
    THEN Thrown(ErrPageSize)
    ELSE LET found == matchedEmployees(Opt(options, "search", Undefined))
             sorted == IF "sortBy" \in DOMAIN options
                       THEN sortEmployees(found, options.sortBy,
                                          Opt(options, "sortOrder", "asc"))
                       ELSE found
         IN  Paginated(sorted, options.page, options.pageSize)

\* EmployeeService.getEmployee
getEmployee(employeeId) ==
    IF employeeById(employeeId) = Null THEN Null ELSE Live(employeeId)

\* EmployeeService.getEmployees
getEmployees == LiveAll(allEmployeeIds)

\* InventoryAPI.search as a caller reaches it: the method declares the one
\* parameter query, and a second argument of the call is dropped
apiSearch(query, filter) == search(query)

\* Variant: a blank query finds no employee, as a blank query finds no tool
searchEmployees_BlankEmpty(query) ==
    IF IsSearch(query) THEN LiveAll(matchedEmployees(query)) ELSE <<>>

\* EmployeeService.searchEmployees
searchEmployees(query) == LiveAll(matchedEmployees(query))

----------------------------------------------------------------------------
(* Observation of calls.  last is the most recently resolved call: its     *)
(* arguments, the day it ran on, the store it found and what it returned.  *)
(* run follows one tool through the call sequence assign, unassign,        *)
(* assign.                                                                 *)

NoCall == [op |-> "none", toolId |-> "", employeeId |-> "",
           assignedOn |-> Undefined, today |-> Str(<<>>), before |-> tools,
           result |-> Fail(<<>>)]

Call(op, toolId, employeeId, assignedOn, result) ==
    [op |-> op, toolId |-> toolId, employeeId |-> employeeId,
     assignedOn |-> assignedOn, today |-> today, before |-> tools,
     result |-> result]

Idle == [step |-> 0, tool |-> "", emp |-> "", ok |-> TRUE]

\* Not expired on the day the call runs (by calendar day, not by string)
DueDay(tool) == CHOOSE d \in Days : toISOString(d) = tool.calibrationDueDate.chars
Expired(tool) == DueDay(tool) < now

RunAfter(op, toolId, employeeId, result) ==
    IF toolId \notin ToolIds THEN run
    ELSE IF /\ op = "assign"
            /\ employeeId \in EmployeeIds
            /\ ~Expired(tools[toolId])
            /\ run.step = 2 /\ run.tool = toolId /\ run.emp = employeeId
    THEN [run EXCEPT !.step = 3, !.ok = run.ok /\ result.ok]
    ELSE IF /\ op = "assign"
            /\ employeeId \in EmployeeIds
            /\ ~Expired(tools[toolId])
            /\ IsNullish(tools[toolId].assignedTo)
    THEN [step |-> 1, tool |-> toolId, emp |-> employeeId, ok |-> result.ok]
    ELSE IF op = "unassign" /\ run.step = 1 /\ run.tool = toolId
    THEN [run EXCEPT !.step = 2, !.ok = run.ok /\ result.ok]
    ELSE IF run.tool = toolId THEN Idle
    ELSE run

----------------------------------------------------------------------------
(* State machine *)

\* Variant: the constructor keeps the objects it was given
structuredClone_Same(objects) == [objects |-> objects, fresh |-> FALSE]

\* structuredClone: a deep copy, made of objects of its own
structuredClone(objects) == [objects |-> objects, fresh |-> TRUE]

\* new InventoryAPI(tools, employees) on the day StartDay
Constructed(seedTools) ==
    /\ tools = structuredClone(seedTools).objects
    /\ seedShared = ~structuredClone(seedTools).fresh
    /\ employees = [e \in EmployeeIds |-> [id |-> e, name |-> EmployeeName(e)]]
    /\ now = StartDay

NoOptions == [pageSize |-> 1]
NoPages == [upto |-> 0, data |-> <<>>, totals |-> {}, totalPages |-> 0]

Init ==
    /\ \E due \in [ToolIds -> Days] :
       \E a1 \in SeedAssignments("T1"), a2 \in SeedAssignments("T2") :
           Constructed([t \in ToolIds |->
                           SeedTool(t, due[t], IF t = "T1" THEN a1 ELSE a2)])
    /\ last = NoCall
    /\ run = Idle
    /\ opts = NoOptions
    /\ acc = NoPages
    /\ seed = Null
    /\ held = Null
    /\ ui = Null /\ pending = {} /\ typing = Null
    /\ written = <<>> /\ mockTools = Null

\* InventoryAPI.assignTool
assignTool(toolId, employeeId, assignedOn) ==
    /\ tools' = ServiceAssignTool(toolId, employeeId, Forwarded(assignedOn)).tools
    /\ UNCHANGED <<employees, now>>

assignToolResult(toolId, employeeId, assignedOn) ==
    ServiceAssignTool(toolId, employeeId, Forwarded(assignedOn)).result

\* InventoryAPI.reassignTool
reassignTool(toolId, employeeId, assignedOn) ==
    /\ tools' = ServiceReassignTool(toolId, employeeId, Forwarded(assignedOn)).tools
    /\ UNCHANGED <<employees, now>>

reassignToolResult(toolId, employeeId, assignedOn) ==
    ServiceReassignTool(toolId, employeeId, Forwarded(assignedOn)).result

\* InventoryAPI.unassignTool
unassignTool(toolId) ==
    /\ tools' = ServiceUnassignTool(toolId).tools
    /\ UNCHANGED <<employees, now>>

unassignToolResult(toolId) == ServiceUnassignTool(toolId).result

\* InventoryAPI.downloadCalibrationCertificate
downloadCalibrationCertificate(toolId) ==
    /\ tools' = ServiceDownloadCertificate(toolId).tools
    /\ UNCHANGED <<employees, now>>

downloadCalibrationCertificateResult(toolId) ==
    ServiceDownloadCertificate(toolId).result

\* Midnight UTC passes: new Date() falls on the next calendar day
Tick ==
    /\ now < MaxDay
    /\ now' = now + 1
    /\ UNCHANGED <<tools, employees, last, run, paging, handles, screen, aside>>

\* Calls observed one at a time: last holds the call that has just resolved
Next ==
    \/ \E t \in AnyToolId, e \in AnyEmployeeId, d \in AssignedOnArgs :
          /\ assignTool(t, e, d)
          /\ last' = Call("assign", t, e, d, assignToolResult(t, e, d))
          /\ UNCHANGED <<run, paging, handles, screen, aside>>
    \/ \E t \in AnyToolId, e \in AnyEmployeeId, d \in AssignedOnArgs :
          /\ reassignTool(t, e, d)
          /\ last' = Call("reassign", t, e, d, reassignToolResult(t, e, d))
          /\ UNCHANGED <<run, paging, handles, screen, aside>>
    \/ \E t \in AnyToolId :
          /\ unassignTool(t)
          /\ last' = Call("unassign", t, "", Undefined, unassignToolResult(t))
          /\ UNCHANGED <<run, paging, handles, screen, aside>>
    \/ \E t \in AnyToolId :
          /\ downloadCalibrationCertificate(t)
          /\ last' = Call("certificate", t, "", Undefined,
                          downloadCalibrationCertificateResult(t))
          /\ UNCHANGED <<run, paging, handles, screen, aside>>
    \/ Tick

\* Calls observed as sequences: run follows assign, unassign, assign on a tool
NextRun ==
    \/ \E t \in AnyToolId, e \in AnyEmployeeId, d \in AssignedOnArgs :
          /\ assignTool(t, e, d)
          /\ run' = RunAfter("assign", t, e, assignToolResult(t, e, d))
          /\ UNCHANGED <<last, paging, handles, screen, aside>>
    \/ \E t \in AnyToolId, e \in AnyEmployeeId, d \in AssignedOnArgs :
          /\ reassignTool(t, e, d)
          /\ run' = RunAfter("reassign", t, e, reassignToolResult(t, e, d))
          /\ UNCHANGED <<last, paging, handles, screen, aside>>
    \/ \E t \in AnyToolId :
          /\ unassignTool(t)
          /\ run' = RunAfter("unassign", t, "", unassignToolResult(t))
          /\ UNCHANGED <<last, paging, handles, screen, aside>>
    \/ Tick

SpecRun == Init /\ [][NextRun]_vars

Spec == Init /\ [][Next]_vars

----------------------------------------------------------------------------
(* Paging.  A caller pages through the tools with one set of options,      *)
(* asking for any page in any order, while tools are assigned and returned *)
(* in between.  acc collects the pages 1, 2, ... it was given in that      *)
(* order with no assignment call in between.                               *)

QueryToolIds == ToolIds \cup {"T3"}

Pages == 0..MaxPage
PageSizes == (1..MaxAsked) \cup {MaxPageSize}
BadPageSizes == {0, MaxPageSize + 1}

\* An options object is put together from its parts; a part that is left
\* out is a property the object does not have.
Nothing == [k \in {} |-> ""]
Merge(a, b) ==
    [k \in DOMAIN a \cup DOMAIN b |-> IF k \in DOMAIN b THEN b[k] ELSE a[k]]

FilterParts ==
    {Nothing} \cup {[filter |-> f] : f \in {"all", "assigned", "available"}}
SortParts ==
    {Nothing, [sortBy |-> "type"], [sortBy |-> "type", sortOrder |-> "desc"],
     [sortBy |-> "assignedTo", sortOrder |-> "asc"],
     [sortBy |-> "assignedTo", sortOrder |-> "desc"]}

\* Searches: none, the empty string, blanks only, a model in other case
\* with blanks around it, a holder's name in other case
SearchParts ==
    {Nothing, [search |-> Str(<<>>)], [search |-> Str(<<Space, Space>>)],
     [search |-> Str(<<Space, 116, 71, Space>>)],
     [search |-> Str(<<97, 76, 105, 67, 101>>)]}

Queries ==
    {Merge(Merge(Merge([pageSize |-> n], f), o), q) :
        n \in PageSizes, f \in FilterParts, o \in SortParts, q \in SearchParts}
    \cup
    {Merge(Merge([pageSize |-> n], f), q) :
        n \in BadPageSizes, f \in {Nothing, [filter |-> "assigned"]},
        q \in {Nothing, [search |-> Str(<<97, 76, 105, 67, 101>>)]}}

WithPage(options, page) == Merge(options, [page |-> page])

\* T1 is free, T2 is held by E1 and due on the day of construction, T3 is
\* free, has no assignment properties at all, and is overdue.
QuerySeed ==
    [t \in QueryToolIds |->
        CASE t = "T1" -> SeedTool(t, MaxDay, <<Null, Null>>)
          [] t = "T2" -> SeedTool(t, StartDay, <<Id("E1"), Str(toISOString(1))>>)
          [] OTHER -> SeedTool(t, 1, <<Undefined, Undefined>>)]

InitQuery ==
    /\ Constructed(QuerySeed)
    /\ opts \in Queries
    /\ last = NoCall
    /\ run = Idle
    /\ acc = NoPages
    /\ seed = Null
    /\ held = Null
    /\ ui = Null /\ pending = {} /\ typing = Null
    /\ written = <<>> /\ mockTools = Null

\* A read leaves the engine as it is
Read == UNCHANGED <<tools, employees, now>>

Asked(op, options, result) ==
    [op |-> op, options |-> options, before |-> tools, result |-> result]

Wrote == [op |-> "write"]

\* The pages collected once page has been answered with result
Collected(page, result) ==
    IF ~Resolved(result) THEN NoPages
    ELSE IF page = 1
    THEN [upto |-> 1, data |-> result.data,
          totals |-> {result.pagination.total},
          totalPages |-> result.pagination.totalPages]
    ELSE IF acc.upto >= 1 /\ page = acc.upto + 1
    THEN [upto |-> page, data |-> acc.data \o result.data,
          totals |-> acc.totals \cup {result.pagination.total},
          totalPages |-> result.pagination.totalPages]
    ELSE NoPages

NextQuery ==
    \/ \E p \in Pages :
          /\ Read
          /\ last' = Asked("getToolsPaginated", WithPage(opts, p),
                           getToolsPaginated(WithPage(opts, p)))
          /\ acc' = Collected(p, getToolsPaginated(WithPage(opts, p)))
          /\ UNCHANGED <<run, opts, handles, screen, aside>>
    \/ \E t \in QueryToolIds, e \in EmployeeIds :
          /\ assignTool(t, e, Undefined)
          /\ last' = Wrote
          /\ acc' = NoPages
          /\ UNCHANGED <<run, opts, handles, screen, aside>>
    \/ \E t \in QueryToolIds, e \in EmployeeIds :
          /\ reassignTool(t, e, Undefined)
          /\ last' = Wrote
          /\ acc' = NoPages
          /\ UNCHANGED <<run, opts, handles, screen, aside>>
    \/ \E t \in QueryToolIds :
          /\ unassignTool(t)
          /\ last' = Wrote
          /\ acc' = NoPages
          /\ UNCHANGED <<run, opts, handles, screen, aside>>

SpecQuery == InitQuery /\ [][NextQuery]_vars

----------------------------------------------------------------------------
(* Reading.  Every method of the facade is called, one call at a time,     *)
(* with stored and unknown ids, pages and page sizes inside and outside    *)
(* their ranges, and searches with and without text.                       *)

ReadToolIds == QueryToolIds \cup {"T9"}

ReadOptions ==
    {[page |-> p, pageSize |-> n] :
        p \in 0..2, n \in {0, 1, MaxPageSize, MaxPageSize + 1}}

FilterArgs == FilterParts

\* Searches: the empty string, blanks only, a model in other case with
\* blanks around it, a holder's name in other case, an employee id in
\* lower case
SearchArgs ==
    {Str(<<>>), Str(<<Space, Space>>), Str(<<Space, 116, 71, Space>>),
     Str(<<97, 76, 105, 67, 101>>), Str(<<101, 50>>)}

InitRead ==
    /\ Constructed(QuerySeed)
    /\ opts = NoOptions
    /\ last = NoCall
    /\ run = Idle
    /\ acc = NoPages
    /\ seed = Null
    /\ held = Null
    /\ ui = Null /\ pending = {} /\ typing = Null
    /\ written = <<>> /\ mockTools = Null

Observed == UNCHANGED <<run, paging, handles, screen, aside>>

\* The caller of a write that resolved ok: true notes the assignment of the
\* tool it was answered with
Told(toolId, result) ==
    /\ written' = IF result.ok
                  THEN (toolId :> [assignedTo |-> result.tool.assignedTo,
                                   assignedOn |-> result.tool.assignedOn])
                           @@ written
                  ELSE written
    /\ UNCHANGED <<run, paging, handles, screen, mockTools>>

NextRead ==
    \/ \E o \in ReadOptions :
          /\ Read
          /\ last' = Asked("getToolsPaginated", o, getToolsPaginated(o))
          /\ Observed
    \/ \E o \in ReadOptions :
          /\ Read
          /\ last' = Asked("getEmployeesPaginated", o, getEmployeesPaginated(o))
          /\ Observed
    \/ \E t \in ReadToolIds :
          /\ Read
          /\ last' = Asked("getTool", [toolId |-> t], getTool(t))
          /\ Observed
    \/ \E a \in FilterArgs :
          /\ Read
          /\ last' = Asked("getTools", a, getTools(a))
          /\ Observed
    \/ \E q \in SearchArgs, a \in FilterArgs :
          /\ Read
          /\ last' = Asked("search", Merge([query |-> q], a),
                           apiSearch(q, Opt(a, "filter", Undefined)))
          /\ Observed
    \/ \E e \in AnyEmployeeId :
          /\ Read
          /\ last' = Asked("getEmployee", [employeeId |-> e], getEmployee(e))
          /\ Observed
    \/ /\ Read
       /\ last' = Asked("getEmployees", Nothing, getEmployees)
       /\ Observed
    \/ \E q \in SearchArgs :
          /\ Read
          /\ last' = Asked("searchEmployees", [query |-> q], searchEmployees(q))
          /\ Observed
    \/ \E t \in ReadToolIds :
          /\ downloadCalibrationCertificate(t)
          /\ last' = Call("certificate", t, "", Undefined,
                          downloadCalibrationCertificateResult(t))
          /\ Observed
    \/ \E t \in ReadToolIds, e \in AnyEmployeeId :
          /\ assignTool(t, e, Undefined)
          /\ last' = Call("assign", t, e, Undefined,
                          assignToolResult(t, e, Undefined))
          /\ Told(t, assignToolResult(t, e, Undefined))
    \/ \E t \in ReadToolIds, e \in AnyEmployeeId :
          /\ reassignTool(t, e, Undefined)
          /\ last' = Call("reassign", t, e, Undefined,
                          reassignToolResult(t, e, Undefined))
          /\ Told(t, reassignToolResult(t, e, Undefined))
    \/ \E t \in ReadToolIds :
          /\ unassignTool(t)
          /\ last' = Call("unassign", t, "", Undefined, unassignToolResult(t))
          /\ Told(t, unassignToolResult(t))
    \/ Tick

SpecRead == InitRead /\ [][NextRead]_vars

----------------------------------------------------------------------------
(* Objects in the caller's hands.  The caller keeps the seed objects it    *)
(* built the engine from and an object a read returned to it, and writes   *)
(* to their fields like to any object of its own.  A write to an object    *)
(* that is also an object of the store is a write to the store.            *)

\* The fields of an object a read returned
Contents(object) ==
    IF "live" \in DOMAIN object THEN tools[object.live] ELSE object.copy

\* The caller keeps what a read resolved with, and remembers its fields
Handed(object) ==
    IF object = Null THEN Null
    ELSE [object |-> object, was |-> Contents(object)]

\* What the caller writes into assignedTo
CallerValues == {Null, Id("E1")}

AliasSeed ==
    [t \in ToolIds |->
        IF t = "T1" THEN SeedTool(t, MaxDay, <<Null, Null>>)
        ELSE SeedTool(t, MaxDay, <<Id("E2"), Str(toISOString(1))>>)]

Handled(op, toolId) ==
    [op |-> op, toolId |-> toolId, before |-> tools, seedBefore |-> seed]

InitAlias ==
    /\ Constructed(AliasSeed)
    /\ opts = NoOptions
    /\ last = [op |-> "none", toolId |-> "", before |-> AliasSeed,
               seedBefore |-> AliasSeed]
    /\ run = Idle
    /\ acc = NoPages
    /\ seed = AliasSeed
    /\ held = Null
    /\ ui = Null /\ pending = {} /\ typing = Null
    /\ written = <<>> /\ mockTools = Null

\* The seed objects change with the store exactly when they are its objects
SeedFollows == seed' = IF seedShared THEN tools' ELSE seed

Kept(object) ==
    /\ Read
    /\ held' = Handed(object)
    /\ UNCHANGED <<run, paging, seed, seedShared, screen, aside>>

\* seedTools[toolId].assignedTo = value, by the caller
mutateSeed(toolId, value) ==
    /\ seed' = [seed EXCEPT ![toolId].assignedTo = value]
    /\ tools' = IF seedShared THEN seed' ELSE tools
    /\ UNCHANGED <<employees, now, run, paging, seedShared, held, screen, aside>>

\* returned.assignedTo = value, by the caller
mutateHeld(value) ==
    /\ held # Null
    /\ IF "live" \in DOMAIN held.object
       THEN /\ tools' = [tools EXCEPT ![held.object.live].assignedTo = value]
            /\ held' = [held EXCEPT !.was = tools'[held.object.live]]
       ELSE /\ tools' = tools
            /\ held' = [object |-> [copy |-> [held.object.copy
                                                EXCEPT !.assignedTo = value]],
                        was |-> [held.object.copy EXCEPT !.assignedTo = value]]
    /\ SeedFollows
    /\ UNCHANGED <<employees, now, run, paging, seedShared, screen, aside>>

WholePage == [page |-> 1, pageSize |-> MaxPageSize]

NextAlias ==
    \/ \E t \in AnyToolId :
          /\ Kept(getTool(t))
          /\ last' = Handled("getTool", t)
    \/ \E a \in FilterArgs : \E i \in 1..Len(getTools(a)) :
          /\ Kept(getTools(a)[i])
          /\ last' = Handled("getTools", getTools(a)[i].live)
    \/ \E q \in SearchArgs : \E i \in 1..Len(search(q)) :
          /\ Kept(search(q)[i])
          /\ last' = Handled("search", search(q)[i].live)
    \/ \E i \in 1..Len(getToolsPaginated(WholePage).data) :
          /\ Kept(getToolsPaginated(WholePage).data[i])
          /\ last' = Handled("getToolsPaginated",
                             getToolsPaginated(WholePage).data[i].live)
    \/ \E t \in ToolIds, e \in EmployeeIds :
          /\ assignTool(t, e, Undefined)
          /\ SeedFollows
          /\ last' = Handled("assign", t)
          /\ UNCHANGED <<run, paging, seedShared, held, screen, aside>>
    \/ \E t \in ToolIds, e \in EmployeeIds :
          /\ reassignTool(t, e, Undefined)
          /\ SeedFollows
          /\ last' = Handled("reassign", t)
          /\ UNCHANGED <<run, paging, seedShared, held, screen, aside>>
    \/ \E t \in ToolIds :
          /\ unassignTool(t)
          /\ SeedFollows
          /\ last' = Handled("unassign", t)
          /\ UNCHANGED <<run, paging, seedShared, held, screen, aside>>
    \/ \E t \in ToolIds, v \in CallerValues :
          /\ mutateSeed(t, v)
          /\ last' = Handled("mutateSeed", t)
    \/ \E v \in CallerValues :
          /\ mutateHeld(v)
          /\ last' = Handled("mutateHeld", held.object.live)

SpecAlias == InitAlias /\ [][NextAlias]_vars

----------------------------------------------------------------------------
(* The inventory table.  ui is the state of the hooks behind the table     *)
(* (useInventoryUI and the rows useInventoryData loaded), pending holds    *)
(* the handlers that have called the API and wait for its answer.  Every   *)
(* API method awaits simulateDelay first, so a handler runs in pieces: the *)
(* piece up to its call, and the piece from the answer to its next call;   *)
(* the user can act between the pieces.                                    *)

\* Handlers that wait for the API at one time
MaxFlight == 1

\* The time of day, in half days since midnight
DayParts == {0, 1}

\* dayjs(date): the day a YYYY-MM-DD string names
dayjs(date) == CHOOSE d \in 0..(MaxDay + 1) : toISOString(d) = date.chars

\* dayjs().format('YYYY-MM-DD')
format(day) == Str(toISOString(day))

\* dayjs(date).diff(dayjs(), 'day'): the whole days from now to the midnight
\* date begins with, truncated toward zero
diff(date, part) ==
    LET halves == 2 * (dayjs(date) - now) - part
    IN  IF halves >= 0 THEN halves \div 2 ELSE 0 - ((0 - halves) \div 2)

isCalibrationExpired(days) == days < 0

\* tool.assignedTo || ''
assignedToOrEmpty(tool) ==
    IF tool.assignedTo.tag = "id" THEN tool.assignedTo.id ELSE ""

Empty == Str(<<>>)

\* The tools the table shows, as loadTools copied them from the answer of
\* getToolsPaginated (filter 'all', every tool on the page)
Rows ==
    [t \in DOMAIN tools |->
        [id |-> t,
         assignedTo |-> tools[t].assignedTo,
         calibrationDueDate |-> tools[t].calibrationDueDate]]

\* useInventoryUI and useInventoryData after the first load
MountedUI ==
    [editingState |-> Null,
     employeeSearchText |-> Empty,
     unassignModalVisible |-> FALSE,
     selectedTool |-> Null,
     tools |-> Rows]

\* The state handleEdit opens an edit session with
EditingState(tool) ==
    [toolId |-> tool.id,
     assignedTo |-> assignedToOrEmpty(tool),
     assignedOn |-> IF Truthy(tool.assignedOn) THEN tool.assignedOn
                    ELSE format(now),
     originalAssignedTo |-> assignedToOrEmpty(tool),
     originalAssignedOn |-> IF Truthy(tool.assignedOn) THEN tool.assignedOn
                            ELSE Empty]

\* resetEditingState and resetUnassignState of useInventoryTable
resetEditingState(state) ==
    [state EXCEPT !.editingState = Null, !.employeeSearchText = Empty]

resetUnassignState(state) ==
    [state EXCEPT !.unassignModalVisible = FALSE, !.selectedTool = Null]

\* The Actions column: what useInventoryTableColumns passes to EditAction
isEditing(t) == ui.editingState # Null /\ ui.editingState.toolId = t
isOtherRowEditing(t) == ui.editingState # Null /\ ui.editingState.toolId # t
isAssigned(t) == Held(ui.tools[t])
calibrationExpired(t, part) ==
    isCalibrationExpired(diff(ui.tools[t].calibrationDueDate, part))
hasChanges ==
    /\ ui.editingState # Null
    /\ \/ ui.editingState.assignedTo # ui.editingState.originalAssignedTo
       \/ ui.editingState.assignedOn # ui.editingState.originalAssignedOn

\* EditAction: the buttons of a row that are shown and not disabled
AssignEnabled(t, part) ==
    /\ ~isEditing(t) /\ ~isAssigned(t)
    /\ ~(calibrationExpired(t, part) \/ isOtherRowEditing(t))

ReassignEnabled(t, part) ==
    /\ ~isEditing(t) /\ isAssigned(t)
    /\ ~(calibrationExpired(t, part) \/ isOtherRowEditing(t))

\* Variant: the unassign link ignores the edit session of another row
UnassignEnabled_Always(t) == ~isEditing(t) /\ isAssigned(t)

UnassignEnabled(t) ==
    /\ ~isEditing(t) /\ isAssigned(t)
    /\ ~isOtherRowEditing(t)

SaveEnabled(t) == isEditing(t) /\ hasChanges
CancelEnabled(t) == isEditing(t)

\* The confirm dialog is modal: while it is open its mask covers the table
Covered == ui.unassignModalVisible

\* What the handlers did last: the handler, the tool, the API method it
\* called and how that went
Did(op, toolId, call, outcome) ==
    [op |-> op, toolId |-> toolId, call |-> call, outcome |-> outcome]

NothingDone == Did("none", "", "none", "none")

Waiting(op, toolId) == [op |-> op, toolId |-> toolId]
Loading == [op |-> "loadTools"]

\* A handler can start waiting for the API while fewer than flights handlers
\* wait for it
CanCallWithin(request, flights) ==
    request \notin pending /\ Cardinality(pending) < flights

Still == UNCHANGED <<employees, now, run, paging, handles, typing, aside>>

\* useToolAssignment.handleEdit, up to its await of getTool.  A row calls it
\* from its assign or reassign link; for an id without a row it is called
\* by a user of the hook.
handleEditWithin(toolId, flights) ==
    /\ toolId \in DOMAIN ui.tools =>
          /\ ~Covered
          /\ \E part \in DayParts :
                AssignEnabled(toolId, part) \/ ReassignEnabled(toolId, part)
    /\ CanCallWithin(Waiting("handleEdit", toolId), flights)
    /\ pending' = pending \cup {Waiting("handleEdit", toolId)}
    /\ last' = Did("handleEdit", toolId, "getTool", "called")
    /\ UNCHANGED <<tools, ui>>
    /\ Still

handleEdit(toolId) == handleEditWithin(toolId, MaxFlight)

\* Variant: the calibration is not looked at
handleEditAnswered_AnyCalibration(request) ==
    /\ request \in pending /\ request.op = "handleEdit"
    /\ IF getTool(request.toolId) = Null
       THEN /\ ui' = ui
            /\ pending' = pending \ {request}
            /\ last' = Did("handleEdit", request.toolId, "getTool", "missing")
       ELSE LET tool == tools[request.toolId]
            IN  /\ ui' = [ui EXCEPT
                            !.editingState = EditingState(tool),
                            !.employeeSearchText =
                                IF Held(tool) THEN @ ELSE Empty]
                /\ pending' = (pending \ {request}) \cup
                       (IF Held(tool)
                        THEN {[op |-> "getEmployee", toolId |-> tool.id,
                               employeeId |-> tool.assignedTo.id]}
                        ELSE {})
                /\ last' = Did("handleEdit", tool.id, "getTool", "opened")
    /\ UNCHANGED tools
    /\ Still

\* handleEdit from the answer of getTool to its await of getEmployee
handleEditAnswered(request) ==
    /\ request \in pending /\ request.op = "handleEdit"
    /\ IF getTool(request.toolId) = Null
       THEN /\ ui' = ui
            /\ pending' = pending \ {request}
            /\ last' = Did("handleEdit", request.toolId, "getTool", "missing")
       ELSE LET tool == tools[request.toolId]
            IN  \E part \in DayParts :
                IF isCalibrationExpired(diff(tool.calibrationDueDate, part))
                THEN /\ ui' = ui
                     /\ pending' = pending \ {request}
                     /\ last' = Did("handleEdit", tool.id, "getTool", "expired")
                ELSE /\ ui' = [ui EXCEPT
                                 !.editingState = EditingState(tool),
                                 !.employeeSearchText =
                                     IF Held(tool) THEN @ ELSE Empty]
                     /\ pending' = (pending \ {request}) \cup
                            (IF Held(tool)
                             THEN {[op |-> "getEmployee", toolId |-> tool.id,
                                    employeeId |-> tool.assignedTo.id]}
                             ELSE {})
                     /\ last' = Did("handleEdit", tool.id, "getTool", "opened")
    /\ UNCHANGED tools
    /\ Still

\* handleEdit from the answer of getEmployee to its end
handleEditNamed(request) ==
    /\ request \in pending /\ request.op = "getEmployee"
    /\ ui' = IF getEmployee(request.employeeId) = Null THEN ui
             ELSE [ui EXCEPT !.employeeSearchText =
                                Str(Text(employees[request.employeeId].name))]
    /\ pending' = pending \ {request}
    /\ last' = Did("handleEdit", request.toolId, "getEmployee", "named")
    /\ UNCHANGED tools
    /\ Still

\* useToolAssignment.handleUnassign, up to its await of getTool
handleUnassignWithin(toolId, flights) ==
    /\ ~Covered
    /\ UnassignEnabled(toolId)
    /\ CanCallWithin(Waiting("handleUnassign", toolId), flights)
    /\ pending' = pending \cup {Waiting("handleUnassign", toolId)}
    /\ last' = Did("handleUnassign", toolId, "getTool", "called")
    /\ UNCHANGED <<tools, ui>>
    /\ Still

handleUnassign(toolId) == handleUnassignWithin(toolId, MaxFlight)

\* handleUnassign from the answer of getTool: the confirm dialog opens
handleUnassignAnswered(request) ==
    /\ request \in pending /\ request.op = "handleUnassign"
    /\ IF getTool(request.toolId) = Null
       THEN /\ ui' = ui
            /\ last' = Did("handleUnassign", request.toolId, "getTool", "missing")
       ELSE /\ ui' = [ui EXCEPT
                        !.selectedTool =
                            [id |-> request.toolId,
                             assignedTo |->
                                 IF IsNullish(tools[request.toolId].assignedTo)
                                 THEN Null
                                 ELSE tools[request.toolId].assignedTo],
                        !.unassignModalVisible = TRUE]
            /\ last' = Did("handleUnassign", request.toolId, "getTool", "shown")
    /\ pending' = pending \ {request}
    /\ UNCHANGED tools
    /\ Still

\* useToolAssignment.handleUnassignConfirm, up to its await of unassignTool
handleUnassignConfirmWithin(flights) ==
    /\ ui.unassignModalVisible
    /\ ui.selectedTool # Null
    /\ CanCallWithin(Waiting("handleUnassignConfirm", ui.selectedTool.id),
                     flights)
    /\ pending' = pending \cup
                     {Waiting("handleUnassignConfirm", ui.selectedTool.id)}
    /\ last' = Did("handleUnassignConfirm", ui.selectedTool.id,
                   "unassignTool", "called")
    /\ UNCHANGED <<tools, ui>>
    /\ Still

handleUnassignConfirm == handleUnassignConfirmWithin(MaxFlight)

\* Variant: the dialog closes and the table is loaded only when the answer
\* is ok: true
handleUnassignConfirmAnswered_OnlyOk(request) ==
    /\ request \in pending /\ request.op = "handleUnassignConfirm"
    /\ unassignTool(request.toolId)
    /\ IF unassignToolResult(request.toolId).ok
       THEN /\ ui' = resetUnassignState(ui)
            /\ pending' = (pending \ {request}) \cup {Loading}
            /\ last' = Did("handleUnassignConfirm", request.toolId,
                           "unassignTool", "ok")
       ELSE /\ ui' = ui
            /\ pending' = pending \ {request}
            /\ last' = Did("handleUnassignConfirm", request.toolId,
                           "unassignTool", "failed")
    /\ UNCHANGED <<run, paging, handles, typing, aside>>

\* handleUnassignConfirm from the answer of unassignTool: the dialog closes
\* and the table is loaded again, whatever the answer
handleUnassignConfirmAnswered(request) ==
    /\ request \in pending /\ request.op = "handleUnassignConfirm"
    /\ unassignTool(request.toolId)
    /\ ui' = resetUnassignState(ui)
    /\ pending' = (pending \ {request}) \cup {Loading}
    /\ last' = Did("handleUnassignConfirm", request.toolId, "unassignTool",
                   IF unassignToolResult(request.toolId).ok
                   THEN "ok" ELSE "failed")
    /\ UNCHANGED <<run, paging, handles, typing, aside>>

\* useToolAssignment.handleUnassignCancel
handleUnassignCancel ==
    /\ ui.unassignModalVisible
    /\ ui' = resetUnassignState(ui)
    /\ last' = Did("handleUnassignCancel",
                   IF ui.selectedTool = Null THEN "" ELSE ui.selectedTool.id,
                   "none", "closed")
    /\ UNCHANGED <<tools, pending>>
    /\ Still

\* The API method handleSave calls for an editing state
saveCall(editingState) ==
    IF editingState.originalAssignedTo = "" /\ editingState.assignedTo # ""
    THEN "assignTool"
    ELSE IF /\ editingState.originalAssignedTo # ""
            /\ editingState.assignedTo # ""
            /\ editingState.originalAssignedTo # editingState.assignedTo
    THEN "reassignTool"
    ELSE IF editingState.originalAssignedTo # "" /\ editingState.assignedTo = ""
    THEN "unassignTool"
    ELSE "none"

\* useToolAssignment.handleSave, up to its await of the API: with nothing to
\* call the session is closed and the table loaded at once
handleSaveWithin(flights) ==
    /\ ~Covered
    /\ ui.editingState # Null
    /\ SaveEnabled(ui.editingState.toolId)
    /\ IF saveCall(ui.editingState) = "none"
       THEN /\ CanCallWithin(Loading, flights) \/ Loading \in pending
            /\ ui' = resetEditingState(ui)
            /\ pending' = pending \cup {Loading}
            /\ last' = Did("handleSave", ui.editingState.toolId, "none", "closed")
       ELSE LET request == [op |-> "handleSave",
                            toolId |-> ui.editingState.toolId,
                            call |-> saveCall(ui.editingState),
                            employeeId |-> ui.editingState.assignedTo,
                            assignedOn |-> ui.editingState.assignedOn]
            IN  /\ CanCallWithin(request, flights)
                /\ ui' = ui
                /\ pending' = pending \cup {request}
                /\ last' = Did("handleSave", request.toolId, request.call,
                               "called")
    /\ UNCHANGED tools
    /\ Still

handleSave == handleSaveWithin(MaxFlight)

\* The answer of the API method handleSave called
saveResult(request) ==
    LET toolId == request.toolId
        employeeId == request.employeeId
        assignedOn == format(dayjs(request.assignedOn))
    IN  CASE request.call = "assignTool" ->
                 [result |-> assignToolResult(toolId, employeeId, assignedOn),
                  tools |-> ServiceAssignTool(toolId, employeeId,
                                              Forwarded(assignedOn)).tools]
          [] request.call = "reassignTool" ->
                 [result |-> reassignToolResult(toolId, employeeId, assignedOn),
                  tools |-> ServiceReassignTool(toolId, employeeId,
                                                Forwarded(assignedOn)).tools]
          [] OTHER ->
                 [result |-> unassignToolResult(toolId),
                  tools |-> ServiceUnassignTool(toolId).tools]

\* Variant: the session is closed and the table loaded whatever the answer
handleSaveAnswered_AlwaysCloses(request) ==
    /\ request \in pending /\ request.op = "handleSave"
    /\ tools' = saveResult(request).tools
    /\ ui' = resetEditingState(ui)
    /\ pending' = (pending \ {request}) \cup {Loading}
    /\ last' = Did("handleSave", request.toolId, request.call,
                   IF saveResult(request).result.ok THEN "ok" ELSE "failed")
    /\ Still

\* handleSave from the answer of the API to its await of loadTools
handleSaveAnswered(request) ==
    /\ request \in pending /\ request.op = "handleSave"
    /\ tools' = saveResult(request).tools
    /\ IF saveResult(request).result.ok
       THEN /\ ui' = resetEditingState(ui)
            /\ pending' = (pending \ {request}) \cup {Loading}
            /\ last' = Did("handleSave", request.toolId, request.call, "ok")
       ELSE /\ ui' = ui
            /\ pending' = pending \ {request}
            /\ last' = Did("handleSave", request.toolId, request.call, "failed")
    /\ Still

\* useToolAssignment.handleCancel
handleCancel ==
    /\ ~Covered
    /\ ui.editingState # Null
    /\ ui' = resetEditingState(ui)
    /\ last' = Did("handleCancel", ui.editingState.toolId, "none", "closed")
    /\ UNCHANGED <<tools, pending>>
    /\ Still

\* setEditingState(prev => ...) of useEmployeeSelection for a chosen employee
chosen(editingState, employeeId) ==
    [editingState EXCEPT
        !.assignedTo = employeeId,
        !.assignedOn = IF Truthy(@) THEN @ ELSE format(now)]

\* useEmployeeSelection.handleEmployeeSelect: an option of the dropdown
handleEmployeeSelect(value) ==
    /\ ~Covered
    /\ ui.editingState # Null
    /\ ui' = IF \E e \in DOMAIN employees :
                   e = value \/ employees[e].name = value
             THEN LET e == CHOOSE e \in DOMAIN employees :
                               e = value \/ employees[e].name = value
                  IN  [ui EXCEPT
                          !.employeeSearchText = Str(Text(employees[e].name)),
                          !.editingState = chosen(@, e)]
             ELSE ui
    /\ last' = Did("handleEmployeeSelect", ui.editingState.toolId, "none",
                   "chosen")
    /\ UNCHANGED <<tools, pending>>
    /\ Still

\* useEmployeeSelection.handleEmployeeSearch: the text typed into the input
handleEmployeeSearch(searchText) ==
    /\ ~Covered
    /\ ui.editingState # Null
    /\ ui' = [ui EXCEPT
                !.employeeSearchText = searchText,
                !.editingState =
                    IF \E e \in DOMAIN employees : Text(e) = searchText.chars
                    THEN chosen(@, CHOOSE e \in DOMAIN employees :
                                       Text(e) = searchText.chars)
                    ELSE IF \E e \in DOMAIN employees :
                               toLowerCase(Text(employees[e].name)) =
                                   toLowerCase(searchText.chars)
                    THEN chosen(@, CHOOSE e \in DOMAIN employees :
                                       toLowerCase(Text(employees[e].name)) =
                                           toLowerCase(searchText.chars))
                    ELSE IF ~Truthy(searchText)
                    THEN chosen(@, "")
                    ELSE @]
    /\ last' = Did("handleEmployeeSearch", ui.editingState.toolId, "none",
                   "typed")
    /\ UNCHANGED <<tools, pending>>
    /\ Still

\* useEmployeeSelection.handleDateChange: a day picked in the calendar
handleDateChange(date) ==
    /\ ~Covered
    /\ ui.editingState # Null
    /\ ui' = [ui EXCEPT !.editingState.assignedOn = format(date)]
    /\ last' = Did("handleDateChange", ui.editingState.toolId, "none", "picked")
    /\ UNCHANGED <<tools, pending>>
    /\ Still

\* useInventoryData.loadTools from the answer of getToolsPaginated
loadToolsAnswered ==
    /\ Loading \in pending
    /\ ui' = [ui EXCEPT !.tools = Rows]
    /\ pending' = pending \ {Loading}
    /\ last' = Did("loadTools", "", "getToolsPaginated", "loaded")
    /\ UNCHANGED tools
    /\ Still

\* The tools of the page: one free, one held and one overdue
UiToolIds == QueryToolIds

\* Texts typed into the employee input: nothing, an employee number, a name
\* in lower case, a text that matches nobody
TypedTexts ==
    {Empty, Str(Text("E2")), Str(toLowerCase(Text("Bob"))), Str(<<120>>)}

\* Days picked in the calendar: the day before the engine was constructed
PickedDays == {StartDay - 1}

InitUI ==
    /\ Constructed(QuerySeed)
    /\ ui = MountedUI
    /\ pending = {}
    /\ typing = Null
    /\ written = <<>> /\ mockTools = Null
    /\ last = NothingDone
    /\ run = Idle
    /\ opts = NoOptions
    /\ acc = NoPages
    /\ seed = Null
    /\ held = Null

NextUI ==
    \/ \E t \in UiToolIds \cup {"T9"} : handleEdit(t)
    \/ \E request \in pending : handleEditAnswered(request)
    \/ \E request \in pending : handleEditNamed(request)
    \/ \E t \in UiToolIds : handleUnassign(t)
    \/ \E request \in pending : handleUnassignAnswered(request)
    \/ handleUnassignConfirm
    \/ \E request \in pending : handleUnassignConfirmAnswered(request)
    \/ handleUnassignCancel
    \/ handleSave
    \/ \E request \in pending : handleSaveAnswered(request)
    \/ handleCancel
    \/ \E e \in EmployeeIds : handleEmployeeSelect(e)
    \/ \E text \in TypedTexts : handleEmployeeSearch(text)
    \/ \E d \in PickedDays : handleDateChange(d)
    \/ loadToolsAnswered
    \/ Tick

SpecUI == InitUI /\ [][NextUI]_vars

\* The confirm dialog beside an edit session.  A handler of one row can be
\* started while a handler of the same row still waits for the API, so that
\* the tool of the dialog is given back by a save before the dialog's own
\* call is answered.  Overlap is the number of handlers that wait at once.
Overlap == MaxFlight + 1

NextDialog ==
    \/ \E t \in UiToolIds : handleEditWithin(t, Overlap)
    \/ \E request \in pending : handleEditAnswered(request)
    \/ \E request \in pending : handleEditNamed(request)
    \/ handleEmployeeSearch(Empty)
    \/ handleSaveWithin(Overlap)
    \/ \E request \in pending : handleSaveAnswered(request)
    \/ \E t \in UiToolIds : handleUnassignWithin(t, Overlap)
    \/ \E request \in pending : handleUnassignAnswered(request)
    \/ handleUnassignConfirmWithin(Overlap)
    \/ \E request \in pending : handleUnassignConfirmAnswered(request)
    \/ handleUnassignCancel
    \/ loadToolsAnswered

SpecDialog == InitUI /\ [][NextDialog]_vars

----------------------------------------------------------------------------
(* The search box.  typing is the state of useInventorySearch: the tab,    *)
(* the text as typed, the text the table is loaded with, and the timers    *)
(* its effect has set and not cleared.  unchangedFor is the time for which *)
(* searchText has had its present value.                                   *)

\* The delay of the effect's setTimeout, in milliseconds
DebounceMs == 300

\* Steps the clock makes during one delay
ClockSteps == 3

StepMs == DebounceMs \div ClockSteps

SearchTexts == {"", "a", "ab"}
Tabs == {"all", "assigned", "available"}

Timer(value) == [value |-> value, left |-> DebounceMs]

\* useInventorySearch after mounting: the effect has run once
MountedSearch ==
    [activeTab |-> "all",
     searchText |-> "",
     debouncedSearchText |-> "",
     timers |-> {Timer("")},
     unchangedFor |-> 0]

Elsewhere ==
    UNCHANGED <<tools, employees, now, last, run, paging, handles, ui, pending,
                aside>>

\* Variant: the effect sets its timer without clearing the one before
setSearchText_NoCleanup(text) ==
    /\ text # typing.searchText
    /\ typing' = [typing EXCEPT !.searchText = text,
                                !.timers = @ \cup {Timer(text)},
                                !.unchangedFor = 0]
    /\ Elsewhere

\* setSearchText with a new text: the component renders again, the cleanup
\* of the effect clears its timer and the effect sets a new one
setSearchText(text) ==
    /\ text # typing.searchText
    /\ typing' = [typing EXCEPT !.searchText = text,
                                !.timers = {Timer(text)},
                                !.unchangedFor = 0]
    /\ Elsewhere

setActiveTab(tab) ==
    /\ tab # typing.activeTab
    /\ typing' = [typing EXCEPT !.activeTab = tab]
    /\ Elsewhere

\* A timer that is due runs its callback
timerFires ==
    /\ \E timer \in typing.timers :
          /\ timer.left = 0
          /\ typing' = [typing EXCEPT !.debouncedSearchText = timer.value,
                                      !.timers = @ \ {timer}]
    /\ Elsewhere

\* Time passes while no timer is due
elapse ==
    /\ \A timer \in typing.timers : timer.left > 0
    /\ typing' = [typing EXCEPT
                    !.timers = {[timer EXCEPT
                                    !.left = IF @ > StepMs THEN @ - StepMs
                                             ELSE 0] : timer \in @},
                    !.unchangedFor = IF @ + StepMs < DebounceMs
                                     THEN @ + StepMs ELSE DebounceMs]
    /\ Elsewhere

InitSearch ==
    /\ Constructed(QuerySeed)
    /\ typing = MountedSearch
    /\ ui = Null
    /\ pending = {}
    /\ written = <<>> /\ mockTools = Null
    /\ last = NoCall
    /\ run = Idle
    /\ opts = NoOptions
    /\ acc = NoPages
    /\ seed = Null
    /\ held = Null

NextSearch ==
    \/ \E text \in SearchTexts : setSearchText(text)
    \/ \E tab \in Tabs : setActiveTab(tab)
    \/ timerFires
    \/ elapse

SpecSearch == InitSearch /\ [][NextSearch]_vars

----------------------------------------------------------------------------
(* The pages of the table.  ui is the state of useInventoryPagination and  *)
(* the rows useInventoryData holds, pending the calls of loadTools that    *)
(* wait for getToolsPaginated, last the page and page size the user chose  *)
(* last.  The page sizes are scaled down to the three tools of the seed.   *)

\* The user changes the page or the page size at most MaxClicks times
MaxClicks == 4

\* pageSizeOptions of the Pagination component, and the page size the hook
\* starts with, which is one of them
PageSizeOptions == 1..MaxAsked
InitialPageSize == MaxAsked

\* useInventoryPagination and useInventoryData at the first render
MountedTable ==
    [pagination |-> [current |-> 1,
                     pageSize |-> InitialPageSize,
                     total |-> 0,
                     totalPages |-> 0,
                     hasNext |-> FALSE,
                     hasPrevious |-> FALSE],
     tools |-> <<>>]

\* A call of loadTools that waits for getToolsPaginated
LoadOf(page, pageSize) ==
    [op |-> "loadTools", page |-> page, pageSize |-> pageSize]

\* The options useInventoryData.loadTools asks getToolsPaginated with, on
\* the tab 'all', in the initial sort order and with no search text
loadOptions(request) ==
    [page |-> request.page,
     pageSize |-> request.pageSize,
     filter |-> "all",
     sortBy |-> "type",
     sortOrder |-> "asc",
     search |-> Empty]

\* The effect of useInventoryTable on [pagination.current,
\* pagination.pageSize]: it runs after a render in which one of the two has
\* changed, and calls loadTools(false) unless the current page is 1
pageEffect(before, after) ==
    IF /\ after.current # before.current \/ after.pageSize # before.pageSize
       /\ after.current # 1
    THEN {LoadOf(after.current, after.pageSize)}
    ELSE {}

\* What the user chose last
Chose(page, pageSize, clicks) ==
    [op |-> "handlePaginationChange", page |-> page, pageSize |-> pageSize,
     clicks |-> clicks]

\* InventoryTable.handlePaginationChange, and the effect that follows the
\* render
handlePaginationChange(page, pageSize) ==
    /\ last.clicks < MaxClicks
    /\ LET after == [ui.pagination EXCEPT
                        !.current = page,
                        !.pageSize = IF pageSize # 0 THEN pageSize ELSE @]
       IN  /\ after # ui.pagination
           /\ ui' = [ui EXCEPT !.pagination = after]
           /\ pending' = pending \cup pageEffect(ui.pagination, after)
    /\ last' = Chose(page, pageSize, last.clicks + 1)
    /\ UNCHANGED tools
    /\ Still

\* The pages the Pagination component offers for a page size
PagesOffered(pageSize) ==
    1..(IF ui.pagination.total = 0 THEN 1
        ELSE Ceil(ui.pagination.total, pageSize))

\* The page the Pagination component stays on when the page size changes:
\* the current one, or the last page there is with the new size
PageKept(pageSize) ==
    IF ui.pagination.current \in PagesOffered(pageSize)
    THEN ui.pagination.current
    ELSE Ceil(ui.pagination.total, pageSize)

\* useInventoryTable.loadTools from the answer of getToolsPaginated:
\* setTools, setPagination(response.pagination), and the effect that
\* follows the render
loadToolsResolved(request) ==
    /\ request \in pending /\ request.op = "loadTools"
    /\ \E response \in {getToolsPaginated(loadOptions(request))} :
           /\ ui' = [pagination |-> response.pagination,
                     tools |-> response.data]
           /\ pending' = (pending \ {request})
                             \cup pageEffect(ui.pagination, response.pagination)
    /\ UNCHANGED <<tools, last>>
    /\ Still

\* The first render: the effect on the tab, the search and the sort order
\* calls loadTools(true), which loads page 1; the effect on the page does
\* nothing on page 1
InitPage ==
    /\ Constructed(QuerySeed)
    /\ ui = MountedTable
    /\ pending = {LoadOf(1, InitialPageSize)}
    /\ typing = Null
    /\ written = <<>> /\ mockTools = Null
    /\ last = Chose(1, InitialPageSize, 0)
    /\ run = Idle
    /\ opts = NoOptions
    /\ acc = NoPages
    /\ seed = Null
    /\ held = Null

LoadRequests == {LoadOf(page, pageSize) : page \in 1..MaxPage,
                                         pageSize \in PageSizeOptions}

NextPage ==
    \/ \E page \in PagesOffered(ui.pagination.pageSize) :
          handlePaginationChange(page, ui.pagination.pageSize)
    \/ \E pageSize \in PageSizeOptions :
          handlePaginationChange(PageKept(pageSize), pageSize)
    \/ \E request \in LoadRequests : loadToolsResolved(request)

SpecPage == InitPage /\ [][NextPage]_vars

\* getToolsPaginated answers every call: the timer of simulateDelay fires
SpecPageFair ==
    SpecPage /\ WF_vars(\E request \in LoadRequests : loadToolsResolved(request))

----------------------------------------------------------------------------
(* MockInventorySystem: one class with a store of its own, mockTools, a    *)
(* structuredClone of the seed it was constructed from.  Its directory of  *)
(* employees is a clone of the same seed and is never written, so it is    *)
(* read from employees.                                                    *)

MockToolById(toolId) ==
    IF toolId \in DOMAIN mockTools THEN mockTools[toolId] ELSE Null

MockEmployeeById(employeeId) ==
    IF employeeId \in DOMAIN employees THEN employees[employeeId] ELSE Null

\* Variant: tool.assignedOn = assignedOn ?? today
MockAssignToEmployee_Coalesced(tool, employee, assignedOn) ==
    IF StrLess(tool.calibrationDueDate.chars, today.chars)
    THEN [tool |-> tool, result |-> Fail(ErrOverdue(tool.id))]
    ELSE LET assigned ==
                 [tool EXCEPT !.assignedTo = Id(employee.id),
                              !.assignedOn = IF IsNullish(assignedOn)
                                             THEN today ELSE assignedOn]
         IN  [tool |-> assigned, result |-> Ok(assigned)]

\* MockInventorySystem.assignToEmployee: tool.assignedOn = assignedOn || today
MockAssignToEmployee(tool, employee, assignedOn) ==
    IF StrLess(tool.calibrationDueDate.chars, today.chars)
    THEN [tool |-> tool, result |-> Fail(ErrOverdue(tool.id))]
    ELSE LET assigned ==
                 [tool EXCEPT !.assignedTo = Id(employee.id),
                              !.assignedOn = IF Truthy(assignedOn)
                                             THEN assignedOn ELSE today]
         IN  [tool |-> assigned, result |-> Ok(assigned)]

MockUnassignFromEmployee(tool) ==
    IF IsNullish(tool.assignedTo)
    THEN [tool |-> tool, result |-> Fail(ErrNotAssigned(tool.id))]
    ELSE LET freed == [tool EXCEPT !.assignedTo = Null, !.assignedOn = Null]
         IN  [tool |-> freed, result |-> Ok(freed)]

MockResolveAssignmentInputs(toolId, employeeId) ==
    IF MockToolById(toolId) = Null
    THEN [error |-> ErrNoTool(toolId)]
    ELSE IF MockEmployeeById(employeeId) = Null
    THEN [error |-> ErrNoEmployee(employeeId)]
    ELSE [tool |-> MockToolById(toolId),
          employee |-> MockEmployeeById(employeeId)]

\* The mock's store after a helper has mutated the tool object it was handed
MockStored(out) == [tools |-> [mockTools EXCEPT ![out.tool.id] = out.tool],
                    result |-> out.result]
MockUntouched(result) == [tools |-> mockTools, result |-> result]

\* MockInventorySystem.assignTool
MockAssignTool(toolId, employeeId, assignedOn) ==
    LET maybeResolved == MockResolveAssignmentInputs(toolId, employeeId)
    IN  IF ~isResolved(maybeResolved)
        THEN MockUntouched(Fail(maybeResolved.error))
        ELSE LET tool == maybeResolved.tool
                 employee == maybeResolved.employee
             IN  IF tool.assignedTo = Id(employeeId)
                 THEN MockUntouched(Fail(ErrSameEmployee(toolId, employeeId)))
                 ELSE IF ~IsNullish(tool.assignedTo)
                 THEN MockUntouched(Fail(ErrOtherEmployee(toolId,
                                                          tool.assignedTo.id)))
                 ELSE MockStored(MockAssignToEmployee(tool, employee, assignedOn))

\* MockInventorySystem.reassignTool
MockReassignTool(toolId, employeeId, assignedOn) ==
    LET maybeResolved == MockResolveAssignmentInputs(toolId, employeeId)
    IN  IF ~isResolved(maybeResolved)
        THEN MockUntouched(Fail(maybeResolved.error))
        ELSE LET tool == maybeResolved.tool
                 employee == maybeResolved.employee
             IN  IF IsNullish(tool.assignedTo)
                 THEN MockUntouched(Fail(ErrNotAssigned(toolId)))
                 ELSE MockStored(MockAssignToEmployee(tool, employee, assignedOn))

\* MockInventorySystem.unassignTool
MockUnassignTool(toolId) ==
    IF MockToolById(toolId) = Null
    THEN MockUntouched(Fail(ErrNoTool(toolId)))
    ELSE MockStored(MockUnassignFromEmployee(MockToolById(toolId)))

\* assignedOn arguments a caller can pass: none, the empty string, or a date
OverrideArgs == AssignedOnArgs \cup {Empty}

\* One call made on both, with the result of each
Both(op, toolId, employeeId, assignedOn, result, mock) ==
    [op |-> op, toolId |-> toolId, employeeId |-> employeeId,
     assignedOn |-> assignedOn, result |-> result, mock |-> mock]

\* new InventoryAPI(tools, employees) and new MockInventorySystem(tools,
\* employees) on the same seed
InitMock ==
    /\ \E due \in [ToolIds -> Days] :
       \E a1 \in SeedAssignments("T1"), a2 \in SeedAssignments("T2") :
           LET seedTools == [t \in ToolIds |->
                                SeedTool(t, due[t], IF t = "T1" THEN a1 ELSE a2)]
           IN  /\ Constructed(seedTools)
               /\ mockTools = structuredClone(seedTools).objects
    /\ last = Both("none", "", "", Undefined, Fail(<<>>), Fail(<<>>))
    /\ run = Idle
    /\ opts = NoOptions
    /\ acc = NoPages
    /\ seed = Null
    /\ held = Null
    /\ ui = Null /\ pending = {} /\ typing = Null
    /\ written = <<>>

\* The same call is made on the InventoryAPI and on the MockInventorySystem
NextMock ==
    \/ \E t \in AnyToolId, e \in AnyEmployeeId, d \in OverrideArgs :
          /\ assignTool(t, e, d)
          /\ mockTools' = MockAssignTool(t, e, d).tools
          /\ last' = Both("assign", t, e, d, assignToolResult(t, e, d),
                          MockAssignTool(t, e, d).result)
          /\ UNCHANGED <<run, paging, handles, screen, written>>
    \/ \E t \in AnyToolId, e \in AnyEmployeeId, d \in OverrideArgs :
          /\ reassignTool(t, e, d)
          /\ mockTools' = MockReassignTool(t, e, d).tools
          /\ last' = Both("reassign", t, e, d, reassignToolResult(t, e, d),
                          MockReassignTool(t, e, d).result)
          /\ UNCHANGED <<run, paging, handles, screen, written>>
    \/ \E t \in AnyToolId :
          /\ unassignTool(t)
          /\ mockTools' = MockUnassignTool(t).tools
          /\ last' = Both("unassign", t, "", Undefined, unassignToolResult(t),
                          MockUnassignTool(t).result)
          /\ UNCHANGED <<run, paging, handles, screen, written>>
    \/ Tick

SpecMock == InitMock /\ [][NextMock]_vars

----------------------------------------------------------------------------
(* Calls in flight.  assignTool awaits simulateDelay and then runs to its  *)
(* return without another await: between the call and the timer other     *)
(* calls are made and other timers fire, and what follows the timer is one *)
(* step.  pending holds the calls whose timer has not fired, last the      *)
(* answers in the order the calls resolved.                                *)

\* Calls made in one run
MaxCalls == 3

\* Calls made so far
Issued == Len(last) + Cardinality(pending)

\* api.assignTool({ toolId, employeeId, assignedOn }) up to its first await
assignToolCalled(toolId, employeeId, assignedOn) ==
    /\ Issued < MaxCalls
    /\ pending' = pending \cup {[op |-> "assignTool", toolId |-> toolId,
                                 employeeId |-> employeeId,
                                 assignedOn |-> assignedOn, no |-> Issued + 1]}
    /\ UNCHANGED <<tools, employees, now, last, run, paging, handles, ui,
                   typing, aside>>

\* The answer to call, with the store it ran on and the calls made until then
Answer(call, result) ==
    [call |-> call, result |-> result, before |-> tools, today |-> today,
     issued |-> Issued]

\* The timer of call fires: the rest of assignTool runs and the promise
\* resolves
assignToolResolved(call) ==
    /\ call \in pending
    /\ assignTool(call.toolId, call.employeeId, call.assignedOn)
    /\ last' = Append(last, Answer(call, assignToolResult(call.toolId,
                                                          call.employeeId,
                                                          call.assignedOn)))
    /\ pending' = pending \ {call}
    /\ UNCHANGED <<run, paging, handles, ui, typing, aside>>

\* Seeds of the tool the calls compete for: T1 in every way it is seeded and
\* due on any day, T2 unassigned and not due
RaceSeeds ==
    {[t \in ToolIds |-> IF t = "T1" THEN SeedTool(t, due, a)
                        ELSE SeedTool(t, MaxDay, <<Null, Null>>)] :
        due \in Days, a \in SeedAssignments("T1")}

InitRace ==
    /\ \E seedTools \in RaceSeeds : Constructed(seedTools)
    /\ last = <<>>
    /\ pending = {}
    /\ run = Idle
    /\ opts = NoOptions
    /\ acc = NoPages
    /\ seed = Null
    /\ held = Null
    /\ ui = Null /\ typing = Null
    /\ written = <<>> /\ mockTools = Null

RaceCalls ==
    {[op |-> "assignTool", toolId |-> t, employeeId |-> e,
      assignedOn |-> Undefined, no |-> n] :
        t \in ToolIds, e \in EmployeeIds, n \in 1..MaxCalls}

NextRace ==
    \/ \E t \in ToolIds, e \in EmployeeIds : assignToolCalled(t, e, Undefined)
    \/ \E call \in RaceCalls : assignToolResolved(call)
    \/ Tick

SpecRace == InitRace /\ [][NextRace]_vars

----------------------------------------------------------------------------
(* Type shape of the store *)

TypeOK ==
    /\ DOMAIN tools = ToolIds
    /\ \A t \in ToolIds :
          /\ tools[t].id = t
          /\ tools[t].assignedTo.tag \in {"null", "undefined", "id"}
          /\ tools[t].assignedOn.tag \in {"null", "undefined", "string"}
    /\ now \in Days

----------------------------------------------------------------------------
(* Vocabulary of the properties *)

IsSet(v) == ~IsNullish(v)

Called(ops) == last.op \in ops
OnStoredTool == last.toolId \in ToolIds
ForStoredEmployee == last.employeeId \in EmployeeIds

Before == last.before[last.toolId]
After == tools[last.toolId]

WasAssigned == OnStoredTool /\ IsSet(Before.assignedTo)
WasUnassigned == OnStoredTool /\ IsNullish(Before.assignedTo)

\* The calendar day a date string stands for
DayOf(date) == CHOOSE d \in Days : toISOString(d) = date.chars

\* calibrationDueDate strictly before the day the last call ran on
WasExpired == OnStoredTool /\ DayOf(Before.calibrationDueDate) < DayOf(last.today)

AssignmentKept ==
    /\ After.assignedTo = Before.assignedTo
    /\ After.assignedOn = Before.assignedOn

\* assignedOn ?? today for the last call
RequestedDate == IF last.assignedOn = Undefined THEN last.today ELSE last.assignedOn

Failed == ~last.result.ok
Succeeded == last.result.ok

SaysOverdue ==
    Failed /\ Len(last.result.error) = 3
           /\ last.result.error[3] = " is overdue for calibration and cannot be assigned."
SaysNotAssigned ==
    Failed /\ Len(last.result.error) = 3
           /\ last.result.error[3] = " is not currently assigned to any employee."
SaysNoEmployee ==
    Failed /\ Len(last.result.error) = 3
           /\ last.result.error[1] = "Employee with ID "
           /\ last.result.error[2] = last.employeeId
           /\ last.result.error[3] = " does not exist."
SaysSameEmployee ==
    Failed /\ Len(last.result.error) = 5
           /\ last.result.error[3] = " is already assigned to employee "
           /\ last.result.error[4] = last.employeeId
SaysOtherEmployee ==
    Failed /\ Len(last.result.error) = 5
           /\ last.result.error[3] = " is already assigned to another employee: "
           /\ Id(last.result.error[4]) = Before.assignedTo

----------------------------------------------------------------------------
(* Properties *)

\* C1: in every state reached from a seed whose tools have assignedTo and
\* assignedOn both set or both null, every tool has assignedTo set if and
\* only if assignedOn is set.
C1_BothOrNeither ==
    \A t \in ToolIds : IsSet(tools[t].assignedTo) <=> IsSet(tools[t].assignedOn)

\* a successful unassign has just cleared a tool that was assigned
C1_Witness ==
    /\ Called({"unassign"}) /\ Succeeded /\ WasAssigned
    /\ IsNullish(After.assignedTo)

\* C2 (as stated): assignTool on an Assigned tool changes nothing and fails,
\* with the same-employee error when the requested employee is the holder
\* and with the another-employee error whenever the holder is someone else.
C2_Original ==
    (Called({"assign"}) /\ WasAssigned) =>
        /\ AssignmentKept
        /\ Failed
        /\ IF Id(last.employeeId) = Before.assignedTo
           THEN SaysSameEmployee ELSE SaysOtherEmployee

\* C2 (amended): assignTool on an Assigned tool changes nothing and fails;
\* for a requested employee that exists in the store the error is the
\* same-employee one when that employee is the holder and the
\* another-employee one otherwise; for a requested employee that is not in
\* the store the error is the employee-does-not-exist one.
C2_Amended ==
    (Called({"assign"}) /\ WasAssigned) =>
        /\ AssignmentKept
        /\ Failed
        /\ IF ~ForStoredEmployee THEN SaysNoEmployee
           ELSE IF Id(last.employeeId) = Before.assignedTo
           THEN SaysSameEmployee ELSE SaysOtherEmployee

\* assignTool for another stored employee has just been refused on an
\* assigned tool
C2_Witness ==
    /\ Called({"assign"}) /\ WasAssigned /\ ForStoredEmployee
    /\ Id(last.employeeId) # Before.assignedTo
    /\ SaysOtherEmployee

\* C3: an assignTool or reassignTool on a tool whose calibrationDueDate is
\* strictly before today returns ok:false and leaves assignedTo and
\* assignedOn as they were.
C3_ExpiredNeverAssigned ==
    (Called({"assign", "reassign"}) /\ WasExpired) => (Failed /\ AssignmentKept)

\* reassignTool to the current holder has just been refused as overdue
C3_Witness ==
    /\ Called({"reassign"}) /\ WasExpired /\ WasAssigned
    /\ Id(last.employeeId) = Before.assignedTo
    /\ SaysOverdue

\* C4 (as stated): assignTool on a tool whose calibrationDueDate is strictly
\* before today returns the overdue error whatever employeeId is passed.
C4_Original ==
    (Called({"assign"}) /\ WasExpired) => SaysOverdue

\* C4 (amended): assignTool on a tool whose calibrationDueDate is strictly
\* before today always returns ok:false; the error is the overdue one when
\* the employee exists and the tool is Unassigned, the
\* employee-does-not-exist one when the employeeId is not in the store, and
\* an already-assigned one when the employee exists and the tool is Assigned.
C4_Amended ==
    (Called({"assign"}) /\ WasExpired) =>
        /\ Failed
        /\ IF ~ForStoredEmployee THEN SaysNoEmployee
           ELSE IF WasUnassigned THEN SaysOverdue
           ELSE (SaysSameEmployee \/ SaysOtherEmployee)

\* assignTool with a stored employee has just been refused as overdue on an
\* unassigned tool
C4_Witness ==
    /\ Called({"assign"}) /\ WasExpired /\ WasUnassigned /\ ForStoredEmployee
    /\ SaysOverdue

\* C5: assignTool returns ok:true exactly when the tool exists, the employee
\* exists, the tool is Unassigned and calibrationDueDate is not before
\* today (a due date equal to today still qualifies).
C5_AssignOkIff ==
    Called({"assign"}) =>
        (Succeeded <=> (/\ OnStoredTool
                        /\ ForStoredEmployee
                        /\ WasUnassigned
                        /\ ~WasExpired))

\* assignTool has just succeeded on a tool that is due today
C5_Witness ==
    /\ Called({"assign"}) /\ Succeeded
    /\ Before.calibrationDueDate = last.today

\* C6: a successful assignTool or reassignTool leaves assignedTo equal to
\* the requested employeeId and assignedOn equal to the supplied assignedOn,
\* or to today when none was supplied, and returns a tool with those values.
C6_SuccessSetsBoth ==
    (Called({"assign", "reassign"}) /\ Succeeded) =>
        /\ After.assignedTo = Id(last.employeeId)
        /\ After.assignedOn = RequestedDate
        /\ last.result.tool.assignedTo = Id(last.employeeId)
        /\ last.result.tool.assignedOn = RequestedDate

\* assignTool has just succeeded with a supplied date other than today
C6_Witness ==
    /\ Called({"assign"}) /\ Succeeded
    /\ last.assignedOn # Undefined /\ last.assignedOn # last.today
    /\ After.assignedOn = last.assignedOn

\* C7: reassignTool on an Assigned, non-expired tool with an existing
\* employee succeeds and overwrites assignedTo and assignedOn, also when the
\* requested employee is the current holder.
C7_ReassignSucceeds ==
    (Called({"reassign"}) /\ WasAssigned /\ ~WasExpired /\ ForStoredEmployee) =>
        /\ Succeeded
        /\ After.assignedTo = Id(last.employeeId)
        /\ After.assignedOn = RequestedDate

\* reassignTool to the current holder has just succeeded and moved the date
C7_Witness ==
    /\ Called({"reassign"}) /\ Succeeded
    /\ Id(last.employeeId) = Before.assignedTo
    /\ After.assignedOn # Before.assignedOn

\* C8: on an Unassigned tool, reassignTool with an existing employee and
\* unassignTool both return ok:false with the not-currently-assigned error
\* and leave the store unchanged.
C8_UnassignedRefused ==
    (/\ WasUnassigned
     /\ \/ Called({"reassign"}) /\ ForStoredEmployee
        \/ Called({"unassign"})) =>
        /\ SaysNotAssigned
        /\ tools = last.before

\* unassignTool has just been refused on a tool whose fields are null
C8_Witness ==
    /\ Called({"unassign"}) /\ WasUnassigned
    /\ Before.assignedTo = Null
    /\ SaysNotAssigned

\* C9: when assignTool, unassignTool and assignTool with the same existing
\* employee are run in this order on an existing tool that is Unassigned at
\* the start and not expired when the assignTool calls run, every one of
\* the three returns ok:true and the tool ends Assigned to that employee.
C9_AssignUnassignAssign ==
    (run.step = 3) =>
        /\ run.ok
        /\ tools[run.tool].assignedTo = Id(run.emp)

\* the third call of such a sequence has run
C9_Witness == run.step = 3 /\ run.tool \in ToolIds

\* C10: a call that returns ok:false leaves the whole store as it was, and a
\* call that returns ok:true leaves both assignedTo and assignedOn of its
\* tool at the values of the operation; no call updates one of the two.
C10_AllOrNothing ==
    /\ employees = [e \in EmployeeIds |-> [id |-> e, name |-> EmployeeName(e)]]
    /\ (Called({"assign", "reassign", "unassign"}) /\ Failed) =>
           tools = last.before
    /\ (Called({"assign", "reassign"}) /\ Succeeded) =>
           /\ After.assignedTo = Id(last.employeeId)
           /\ After.assignedOn = RequestedDate
           /\ \A t \in ToolIds \ {last.toolId} : tools[t] = last.before[t]
    /\ (Called({"unassign"}) /\ Succeeded) =>
           /\ After.assignedTo = Null
           /\ After.assignedOn = Null
           /\ \A t \in ToolIds \ {last.toolId} : tools[t] = last.before[t]

\* reassignTool to a different stored employee has just failed
C10_Witness ==
    /\ Called({"reassign"}) /\ Failed /\ WasAssigned /\ ForStoredEmployee
    /\ Id(last.employeeId) # Before.assignedTo

\* C11: assignTool, reassignTool, unassignTool and
\* downloadCalibrationCertificate never throw or reject, whatever the ids and
\* the state of the tool: the call resolves with an object that has ok, and
\* when a business rule is broken (unknown tool, unknown employee, tool
\* already held on assign, tool not held on reassign or unassign, calibration
\* expired on assign or reassign) that object is {ok: false, error} with a
\* non-empty error.
RuleBroken ==
    \/ ~OnStoredTool
    \/ Called({"assign", "reassign"}) /\ ~ForStoredEmployee
    \/ Called({"assign"}) /\ WasAssigned
    \/ Called({"reassign", "unassign"}) /\ WasUnassigned
    \/ Called({"assign", "reassign"}) /\ WasExpired

C11_NeverThrows ==
    Called({"assign", "reassign", "unassign", "certificate"}) =>
        /\ Resolved(last.result)
        /\ DOMAIN last.result \in {{"ok", "error"}, {"ok", "tool"},
                                   {"ok", "pdfBlob", "filename"}}
        /\ RuleBroken => /\ last.result.ok = FALSE
                         /\ DOMAIN last.result = {"ok", "error"}
                         /\ Len(last.result.error) > 0

\* a certificate was asked for a tool that is not stored, and the call
\* resolved with ok: false
C11_Witness ==
    /\ Called({"certificate"}) /\ ~OnStoredTool
    /\ Resolved(last.result) /\ last.result.ok = FALSE

----------------------------------------------------------------------------
(* Vocabulary of the properties about reads *)

PagedOps == {"getToolsPaginated", "getEmployeesPaginated"}
ReadOps == PagedOps \cup {"getTool", "getTools", "search", "getEmployee",
                          "getEmployees", "searchEmployees", "certificate"}
WriteOps == {"assign", "reassign", "unassign"}

PageOutOfRange ==
    \/ last.options.page < 1
    \/ last.options.pageSize < 1
    \/ last.options.pageSize > MaxPageSize

\* The tools a returned list refers to
ToolsOf(list) == {list[i].live : i \in 1..Len(list)}

NoneTwice(list) == Cardinality(ToolsOf(list)) = Len(list)

C13_NoMethodThrows ==
    /\ Called(ReadOps \cup WriteOps) => Resolved(last.result)
    /\ Called(WriteOps) => "ok" \in DOMAIN last.result

\* C16: the sets of tool ids and employee ids never change; assignTool,
\* reassignTool and unassignTool change nothing in the store but assignedTo
\* and assignedOn of the one tool they name; every read, search, pagination
\* and certificate call leaves the store as it found it.
C16_OnlyAssignmentChanges ==
    /\ DOMAIN tools = DOMAIN QuerySeed
    /\ employees = [e \in EmployeeIds |-> [id |-> e, name |-> EmployeeName(e)]]
    /\ Called(ReadOps) => tools = last.before
    /\ Called(WriteOps) =>
          \A t \in DOMAIN tools :
             tools[t] # last.before[t] =>
                /\ t = last.toolId
                /\ DOMAIN tools[t] = DOMAIN last.before[t]
                /\ \A f \in DOMAIN tools[t] \ {"assignedTo", "assignedOn"} :
                      tools[t][f] = last.before[t][f]

\* a reassignment has just changed the store
C16_Witness ==
    /\ Called({"reassign"}) /\ Succeeded
    /\ tools # last.before

\* C19: in every state the filters 'assigned' and 'available' split the
\* tools in two: no tool is in both, every tool is in one; a tool is in
\* 'assigned' exactly when its assignedTo is not null; getTools('all') and
\* getTools() return every tool, each once.
C19_FiltersPartition ==
    /\ ToolsOf(getTools([filter |-> "assigned"]))
           \cap ToolsOf(getTools([filter |-> "available"])) = {}
    /\ ToolsOf(getTools([filter |-> "assigned"]))
           \cup ToolsOf(getTools([filter |-> "available"])) = DOMAIN tools
    /\ Called({"getTools"}) =>
          /\ NoneTwice(last.result)
          /\ ToolsOf(last.result) =
                CASE Opt(last.options, "filter", "all") = "assigned" ->
                         {t \in DOMAIN tools : IsSet(tools[t].assignedTo)}
                  [] Opt(last.options, "filter", "all") = "available" ->
                         {t \in DOMAIN tools : ~IsSet(tools[t].assignedTo)}
                  [] OTHER -> DOMAIN tools

\* the available tools were asked for while some tool was held and a tool
\* without any assignedTo property was free
C19_Witness ==
    /\ Called({"getTools"})
    /\ Opt(last.options, "filter", "all") = "available"
    /\ \E t \in ToolsOf(last.result) : tools[t].assignedTo = Undefined
    /\ ToolsOf(last.result) # DOMAIN tools

----------------------------------------------------------------------------
(* Vocabulary of the properties about filtering and paging *)

FilterOf(options) == Opt(options, "filter", "all")
SearchOf(options) == Opt(options, "search", Undefined)

\* The tool satisfies the assignment filter
PassesFilter(t, filter) ==
    /\ filter = "assigned" => IsSet(tools[t].assignedTo)
    /\ filter = "available" => ~IsSet(tools[t].assignedTo)

\* The texts a tool can be found by: its type, model, serial number and id,
\* and the name and id of the employee holding it
TextsOf(t) ==
    {Text(tools[t].type), Text(tools[t].model), Text(tools[t].serialNumber),
     Text(tools[t].id)}
    \cup (IF IsSet(tools[t].assignedTo) /\ tools[t].assignedTo.id \in DOMAIN employees
          THEN {Text(employees[tools[t].assignedTo.id].name),
                Text(tools[t].assignedTo.id)}
          ELSE {})

\* The searched text, without regard to case or surrounding blanks, occurs
\* in one of the tool's texts
MatchesSearch(t, searchText) ==
    \E text \in TextsOf(t) :
        includes(toLowerCase(text), trim(toLowerCase(searchText.chars)))

\* The tools a query is about: those that pass its filter and, when it
\* carries a search that is not blank, match the search
PassingTools(options) ==
    {t \in DOMAIN tools :
        /\ PassesFilter(t, FilterOf(options))
        /\ IsSearch(SearchOf(options)) => MatchesSearch(t, SearchOf(options))}

\* The whole sorted result a page is cut from
WholeResult(options) ==
    sortedTools(filterTools(allToolIds, FilterOf(options), SearchOf(options)),
                options)

PageAnswered == Called({"getToolsPaginated"}) /\ Resolved(last.result)

\* C17: with no assignment call in between, for fixed filter, search, sort
\* and valid page size, the pages 1..totalPages put one after the other hold
\* every tool of the filtered set exactly once, and every one of those pages
\* reports total equal to the size of that set.
C17_PagesCoverOnce ==
    acc.upto >= 1 =>
        /\ NoneTwice(acc.data)
        /\ ToolsOf(acc.data) \subseteq PassingTools(opts)
        /\ acc.totals = {Cardinality(PassingTools(opts))}
        /\ acc.upto >= acc.totalPages => ToolsOf(acc.data) = PassingTools(opts)

\* all pages of a sorted result of more than one page have been collected,
\* the last of them not full
C17_Witness ==
    /\ acc.upto = acc.totalPages /\ acc.totalPages >= 2
    /\ "sortBy" \in DOMAIN opts
    /\ Len(acc.data) < acc.totalPages * opts.pageSize

\* C18: a page that is answered reports total = size of the filtered set and
\* totalPages = ceil(total / pageSize); its data is the part of the sorted
\* result from index (page-1)*pageSize up to, not including, page*pageSize;
\* hasNext is page < totalPages and hasPrevious is page > 1.  This holds for
\* an empty result and for a page beyond the last one as well.
C18_PageArithmetic ==
    PageAnswered =>
        LET page == last.options.page
            pageSize == last.options.pageSize
            info == last.result.pagination
            whole == WholeResult(last.options)
            from == (page - 1) * pageSize
            count == IF Len(whole) - from < 0 THEN 0
                     ELSE IF Len(whole) - from > pageSize THEN pageSize
                     ELSE Len(whole) - from
        IN  /\ info.current = page /\ info.pageSize = pageSize
            /\ info.total = Cardinality(PassingTools(last.options))
            /\ info.total = Len(whole)
            /\ info.totalPages * pageSize >= info.total
            /\ info.totalPages >= 0
            /\ info.totalPages > 0 => (info.totalPages - 1) * pageSize < info.total
            /\ Len(last.result.data) = count
            /\ \A i \in 1..count : last.result.data[i] = Live(whole[from + i])
            /\ info.hasNext = (page < info.totalPages)
            /\ info.hasPrevious = (page > 1)

\* a page beyond the last page of a result that is not empty was answered,
\* with no data
C18_Witness ==
    /\ PageAnswered
    /\ last.result.pagination.total > 0
    /\ last.options.page > last.result.pagination.totalPages
    /\ last.result.data = <<>>
    /\ last.result.pagination.hasPrevious /\ ~last.result.pagination.hasNext

\* C20: getToolsPaginated with a filter and a search that is not blank
\* returns exactly the tools that pass the filter and match the search: the
\* total counts them, no other tool is on any page, and a page that has room
\* for all of them holds them all.
C20_FilterAndSearch ==
    PageAnswered /\ IsSearch(SearchOf(last.options)) =>
        /\ last.result.pagination.total = Cardinality(PassingTools(last.options))
        /\ ToolsOf(last.result.data) \subseteq PassingTools(last.options)
        /\ (last.options.page = 1
             /\ last.options.pageSize >= last.result.pagination.total)
              => ToolsOf(last.result.data) = PassingTools(last.options)

\* the assigned tools were searched by a holder's name: one of them is on
\* the page, and another assigned tool is not, because its holder does not
\* match
C20_Witness ==
    /\ PageAnswered /\ IsSearch(SearchOf(last.options))
    /\ FilterOf(last.options) = "assigned"
    /\ ToolsOf(last.result.data) # {}
    /\ \E t \in DOMAIN tools :
          /\ IsSet(tools[t].assignedTo)
          /\ ~MatchesSearch(t, SearchOf(last.options))
          /\ t \notin ToolsOf(last.result.data)

\* C14 (as stated): the tools getToolsPaginated, getTools, getTool and search
\* return are copies: writing to a returned object never changes the state
\* of the engine, and a later assignTool, reassignTool or unassignTool never
\* changes an object that was returned earlier.
C14_ReturnsCopies ==
    /\ Called({"mutateHeld"}) => tools = last.before
    /\ held # Null => Contents(held.object) = held.was

----------------------------------------------------------------------------
(* Properties about searching, sorting and certificates *)

\* C21 (as stated): search(query, filter) returns only tools that both match
\* the query and satisfy the filter, 'assigned' giving only assigned tools
\* and 'available' only unassigned ones, and a call without a filter is
\* answered like one with filter 'all'.
C21_SearchHonoursFilter ==
    Called({"search"}) =>
        /\ \A t \in ToolsOf(last.result) :
              /\ MatchesSearch(t, last.options.query)
              /\ PassesFilter(t, FilterOf(last.options))
        /\ "filter" \notin DOMAIN last.options =>
              last.result = apiSearch(last.options.query, "all")

\* The query is empty or made of blanks only
IsBlank(searchText) ==
    \A i \in 1..Len(searchText.chars) : searchText.chars[i] = Space

\* C22: in every state a search with an empty or whitespace-only query
\* returns no tools while searchEmployees with the same query returns every
\* employee, both on the same engine at the same time.
C22_BlankSearches ==
    /\ \A q \in SearchArgs : IsBlank(q) =>
          /\ search(q) = <<>>
          /\ NoneTwice(searchEmployees(q))
          /\ ToolsOf(searchEmployees(q)) = DOMAIN employees
    /\ Called({"search"}) /\ IsBlank(last.options.query) =>
          last.result = <<>>
    /\ Called({"searchEmployees"}) /\ IsBlank(last.options.query) =>
          ToolsOf(last.result) = DOMAIN employees

\* searchEmployees was called with blanks only and returned both employees,
\* while the store holds tools and a search with the same blanks finds none
C22_Witness ==
    /\ Called({"searchEmployees"})
    /\ IsBlank(last.options.query) /\ Len(last.options.query.chars) > 0
    /\ Len(last.result) = Cardinality(DOMAIN employees)
    /\ Len(last.result) > 1
    /\ DOMAIN tools # {}
    /\ search(last.options.query) = <<>>

\* The tool has no value in the field the query sorts by
Valueless(t, options) == IsNullish(toolValue(tools[t], options.sortBy))

\* In the list no tool without a value follows one with a value
ValuelessFirst(list, options) ==
    \A i, j \in 1..Len(list) :
        i < j /\ Valueless(list[j], options) => Valueless(list[i], options)

\* In the list no tool with a value follows one without
ValuelessLast(list, options) ==
    \A i, j \in 1..Len(list) :
        i < j /\ Valueless(list[i], options) => Valueless(list[j], options)

\* The tools of the pages returned so far, in the order they were returned
Returned(list) == [i \in 1..Len(list) |-> list[i].live]

\* C23: when getToolsPaginated sorts by a field, every tool whose value for
\* that field is null or undefined comes before all tools that have a value
\* in ascending order and after all of them in descending order, on each
\* page and across the consecutive pages of one query.
C23_NullsAtTheEnds ==
    PageAnswered /\ "sortBy" \in DOMAIN last.options =>
        IF Opt(last.options, "sortOrder", "asc") = "asc"
        THEN /\ ValuelessFirst(Returned(last.result.data), last.options)
             /\ ValuelessFirst(Returned(acc.data), last.options)
        ELSE /\ ValuelessLast(Returned(last.result.data), last.options)
             /\ ValuelessLast(Returned(acc.data), last.options)

\* sorted by holder in descending order, the pages returned so far hold a
\* held tool first and then a tool whose holder is null and one whose holder
\* is undefined
C23_Witness ==
    /\ PageAnswered
    /\ Opt(last.options, "sortBy", "") = "assignedTo"
    /\ Opt(last.options, "sortOrder", "asc") = "desc"
    /\ Len(acc.data) > 2
    /\ IsSet(tools[acc.data[1].live].assignedTo)
    /\ \E i, j \in 2..Len(acc.data) :
          /\ tools[acc.data[i].live].assignedTo = Null
          /\ tools[acc.data[j].live].assignedTo = Undefined

\* C24: downloadCalibrationCertificate returns {ok: false, error} for an
\* unknown tool id, and for a known tool a filename that depends only on the
\* tool's id and calibrationDueDate: after any assignment changes, and on
\* any day, it is the filename the tool had when the engine was constructed.
C24_CertificateName ==
    Called({"certificate"}) =>
        /\ Resolved(last.result)
        /\ IF last.toolId \in DOMAIN tools
           THEN /\ last.result.ok
                /\ last.result.filename =
                       Certificate(QuerySeed[last.toolId]).filename
                /\ \A t \in DOMAIN tools :
                       t # last.toolId =>
                          Certificate(tools[t]).filename # last.result.filename
           ELSE /\ ~last.result.ok
                /\ Len(last.result.error) > 0
                /\ DOMAIN last.result = {"ok", "error"}

\* a certificate was downloaded for a tool whose holder is no longer the
\* one it was constructed with, on a later day than the construction
C24_Witness ==
    /\ Called({"certificate"}) /\ OnStoredTool
    /\ last.result.ok
    /\ tools[last.toolId].assignedTo # QuerySeed[last.toolId].assignedTo
    /\ now > StartDay

----------------------------------------------------------------------------
(* Properties of the inventory table *)

SessionOpen == ui.editingState # Null

\* The handlers that waited for the API and were answered in this step
Answered(op) == {request \in pending \ pending' : request.op = op}

\* The handlers a row started in this step
Started(ops) ==
    {request \in pending' \ pending :
        request.op \in ops /\ request.toolId \in DOMAIN ui.tools}

C26_SaveDisabledAtStart ==
    /\ last.op = "handleEdit" /\ last.outcome = "opened"
    /\ SessionOpen /\ ui.editingState.toolId = last.toolId
    => /\ ~SaveEnabled(last.toolId)
       /\ CancelEnabled(last.toolId)

\* C27 (as stated): through the table an assignment is removed only by the
\* confirm dialog: unassignTool is called by no handler but the one of the
\* dialog's confirm button.
C27_UnassignOnlyConfirmed ==
    last.call = "unassignTool" => last.op = "handleUnassignConfirm"

\* C29: when the API call of handleSave returns ok: false the edit session
\* stays as it is and the table is not loaded again: that answer changes
\* nothing on the page.  The answer closes the session and loads the table
\* only when it is ok: true.
C29_FailedSaveKeepsSession ==
    [][\A request \in Answered("handleSave") :
          IF saveResult(request).result.ok
          THEN /\ ~SessionOpen'
               /\ Loading \in pending'
          ELSE /\ ui' = ui
               /\ tools' = tools
               /\ pending' = pending \ {request}]_vars

\* the call of handleSave was answered with ok: false and the session of
\* that tool is still open with its change
C29_Witness ==
    /\ last.op = "handleSave" /\ last.outcome = "failed"
    /\ SessionOpen /\ ui.editingState.toolId = last.toolId
    /\ hasChanges
    /\ Loading \notin pending

\* The calibration due date of the stored tool is before today
CalibrationOver(t) == DayOf(tools[t].calibrationDueDate) < now

\* C30: handleEdit opens no edit session for a tool that does not exist or
\* whose calibration has expired: it leaves the editing state as it was,
\* sets no employee text and asks for no employee.
C30_NoSessionForExpired ==
    [][\A request \in Answered("handleEdit") :
          request.toolId \notin DOMAIN tools \/ CalibrationOver(request.toolId)
          => /\ ui' = ui
             /\ pending' = pending \ {request}]_vars

\* handleEdit found the calibration of a stored tool expired, and no
\* session is open
C30_Witness ==
    /\ last.op = "handleEdit" /\ last.outcome = "expired"
    /\ last.toolId \in DOMAIN tools
    /\ CalibrationOver(last.toolId)
    /\ ~SessionOpen

\* C28: debouncedSearchText only takes a value that searchText has held
\* unchanged for 300 ms; every change of searchText restarts the timer, so
\* no intermediate value is applied; and once searchText has been unchanged
\* for 300 ms and the timer has run, debouncedSearchText is searchText.
C28_Debounced ==
    /\ [][typing'.debouncedSearchText # typing.debouncedSearchText =>
            /\ typing'.debouncedSearchText = typing.searchText
            /\ typing.unchangedFor >= DebounceMs]_vars
    /\ [][typing'.searchText # typing.searchText =>
            typing'.timers = {Timer(typing'.searchText)}]_vars
    /\ [](/\ typing.unchangedFor >= DebounceMs
          /\ \A timer \in typing.timers : timer.left > 0
          => typing.debouncedSearchText = typing.searchText)

\* a typed text has been applied after a shorter one was typed and replaced
\* within the delay, and the text has since changed again and is waiting
C28_Witness ==
    /\ typing.debouncedSearchText = "ab"
    /\ typing.searchText = "a"
    /\ typing.unchangedFor > 0
    /\ typing.unchangedFor < DebounceMs
    /\ typing.timers # {}

----------------------------------------------------------------------------
(* Properties of the store under every sequence of writes *)

\* C35: starting from a seed in which every assigned tool references an
\* existing employee, in every reachable state each non-null assignedTo is
\* the id of an employee present in the store.
C35_HolderExists ==
    \A t \in DOMAIN tools :
        IsSet(tools[t].assignedTo) => tools[t].assignedTo.id \in DOMAIN employees

\* a tool has just been handed over from its holder to another stored
\* employee
C35_Witness ==
    /\ Called({"reassign"}) /\ Succeeded
    /\ After.assignedTo # Before.assignedTo
    /\ After.assignedTo.id \in DOMAIN employees

\* calibrationDueDate of a stored tool strictly before the current day
Overdue(t) == StrLess(tools[t].calibrationDueDate.chars, today.chars)

\* C39: unassignTool does not depend on calibration: on an Assigned tool it
\* succeeds and clears assignedTo and assignedOn even when
\* calibrationDueDate is before today, so an expired tool can always be
\* returned, but afterwards it cannot be assigned again: an Unassigned,
\* expired tool stays Unassigned whatever is called.
C39_ExpiredCanBeReturned ==
    /\ [](Called({"unassign"}) /\ WasAssigned =>
              /\ Succeeded
              /\ After.assignedTo = Null
              /\ After.assignedOn = Null)
    /\ [][\A t \in DOMAIN tools :
              Overdue(t) /\ IsNullish(tools[t].assignedTo) =>
                  IsNullish(tools'[t].assignedTo)]_vars

\* an expired tool has just been returned
C39_Witness ==
    /\ Called({"unassign"}) /\ WasAssigned /\ WasExpired
    /\ Succeeded
    /\ After.assignedTo = Null /\ After.assignedOn = Null

----------------------------------------------------------------------------
(* Properties of the reads that follow a write *)

\* The assignment the callers know a tool to have: the one the latest write
\* that resolved ok: true answered with, or the seed's
Known(t) ==
    IF t \in DOMAIN written THEN written[t]
    ELSE [assignedTo |-> QuerySeed[t].assignedTo,
          assignedOn |-> QuerySeed[t].assignedOn]

KnownHeld(t) == IsSet(Known(t).assignedTo)

\* The name a certificate prints for the holder the callers know of
KnownHolderName(t) ==
    IF KnownHeld(t) THEN EmployeeName(Known(t).assignedTo.id) ELSE "Unassigned"

\* The list the last call resolved with holds the tool
Returns(t) == t \in ToolsOf(last.result)

\* C34: all services of one InventoryAPI share one store: once an
\* assignTool, reassignTool or unassignTool call has resolved ok:true, every
\* later getTool, getTools, getToolsPaginated, search and certificate call
\* on that API reflects the new assignment.
C34_ReadsReflectWrites ==
    \A t \in DOMAIN written :
        /\ Called({"getTool"}) /\ last.options.toolId = t =>
               /\ last.result # Null
               /\ Contents(last.result).assignedTo = written[t].assignedTo
               /\ Contents(last.result).assignedOn = written[t].assignedOn
        /\ Called({"getTools"}) =>
               /\ Opt(last.options, "filter", "all") = "all" => Returns(t)
               /\ Opt(last.options, "filter", "all") = "assigned" =>
                      (Returns(t) <=> KnownHeld(t))
               /\ Opt(last.options, "filter", "all") = "available" =>
                      (Returns(t) <=> ~KnownHeld(t))
        /\ Called({"getToolsPaginated"}) /\ Resolved(last.result) =>
               \A i \in 1..Len(last.result.data) :
                  last.result.data[i].live = t =>
                     /\ Contents(last.result.data[i]).assignedTo
                            = written[t].assignedTo
                     /\ Contents(last.result.data[i]).assignedOn
                            = written[t].assignedOn
        /\ Called({"search"})
              /\ searchQueryOf(last.options.query) = toLowerCase(Text("Alice")) =>
               (Returns(t) <=> Known(t).assignedTo = Id("E1"))
        /\ Called({"certificate"}) /\ last.toolId = t =>
               /\ last.result.ok
               /\ last.result.pdfBlob.assignedTo = KnownHolderName(t)

\* the tools assigned were asked for after T1 was assigned, and T1 is one
\* of them
C34_Witness ==
    /\ Called({"getTools"})
    /\ Opt(last.options, "filter", "all") = "assigned"
    /\ "T1" \in DOMAIN written /\ KnownHeld("T1")
    /\ Returns("T1")

\* The search of the last call, as filterTools compares it
Sought == searchQueryOf(last.options.query)

\* One of the tool's own searched fields contains the search
MatchesItself(t) ==
    \E field \in {"type", "model", "serialNumber", "id"} :
        includes(toLowerCase(Text(tools[t][field])), Sought)

\* The name or the id of the holder the callers know of contains the search
KnownHolderMatches(t) ==
    /\ KnownHeld(t)
    /\ \/ includes(toLowerCase(Text(EmployeeName(Known(t).assignedTo.id))), Sought)
       \/ includes(toLowerCase(Text(Known(t).assignedTo.id)), Sought)

\* C37: a tool that matches a search only through its holder's name or id
\* is returned if and only if it is currently assigned to that employee:
\* after a successful unassignTool or a reassignTool to a non-matching
\* employee it is no longer returned, and after assignment to a matching
\* employee it is.
C37_HolderSearchFollows ==
    Called({"search"}) /\ IsSearch(last.options.query) =>
        \A t \in DOMAIN tools :
            ~MatchesItself(t) => (Returns(t) <=> KnownHolderMatches(t))

\* a search for the name of E1 has just returned T1, which was assigned to
\* E1 by a call, and not T2, which E1 held in the seed and no longer holds
C37_Witness ==
    /\ Called({"search"}) /\ Sought = toLowerCase(Text("Alice"))
    /\ "T1" \in DOMAIN written /\ Known("T1").assignedTo = Id("E1")
    /\ "T2" \in DOMAIN written /\ Known("T2").assignedTo # Id("E1")
    /\ Returns("T1") /\ ~Returns("T2")

----------------------------------------------------------------------------
(* Properties of saving and of the confirm dialog *)

\* handleSave runs in this step
Saves == last' # last /\ last'.op = "handleSave"
            /\ last'.outcome \in {"called", "closed"}

\* Only the date of the session differs from the one it was opened with,
\* and the tool of the session was held then
OnlyDateChanged ==
    /\ ui.editingState.originalAssignedTo # ""
    /\ ui.editingState.assignedTo = ui.editingState.originalAssignedTo
    /\ ui.editingState.assignedOn # ui.editingState.originalAssignedOn

\* C33 (as stated): whenever Save is enabled for the edit session (the
\* edited assignedTo or assignedOn differs from the original) and handleSave
\* runs, exactly one of assignTool, reassignTool or unassignTool is called;
\* in particular changing only the assignment date of an assigned tool
\* results in a reassignTool call that stores the new date.
C33_SaveAlwaysCalls ==
    [][Saves /\ SaveEnabled(ui.editingState.toolId) =>
          /\ last'.call \in {"assignTool", "reassignTool", "unassignTool"}
          /\ Cardinality(Started({"handleSave"})) = 1
          /\ OnlyDateChanged =>
                 \E request \in Started({"handleSave"}) :
                    /\ request.call = "reassignTool"
                    /\ request.assignedOn = ui.editingState.assignedOn]_vars

\* C38: after the user confirms the unassign dialog, whenever unassignTool
\* resolves, with ok:true or with ok:false, the dialog is closed, the
\* selected tool is cleared and the table is reloaded; only a thrown error
\* leaves the dialog open.
C38_AnswerClosesDialog ==
    [][\A request \in Answered("handleUnassignConfirm") :
          /\ ~ui'.unassignModalVisible
          /\ ui'.selectedTool = Null
          /\ Loading \in pending']_vars

\* unassignTool answered the dialog with ok: false, the tool having been
\* given back by a save in the meantime; the dialog is closed and the table
\* is being loaded
C38_Witness ==
    /\ last.op = "handleUnassignConfirm" /\ last.outcome = "failed"
    /\ ~ui.unassignModalVisible /\ ui.selectedTool = Null
    /\ Loading \in pending

----------------------------------------------------------------------------
(* Properties of paging through the table *)

\* The table shows the tools of the page and page size the user chose last
ShowsChosen ==
    /\ ui.pagination.current = last.page
    /\ ui.pagination.pageSize = last.pageSize
    /\ ui.tools = getToolsPaginated(loadOptions(last)).data

\* C32 (as stated): after the user changes the current page or the page
\* size, including going back to page 1 from a later page or changing the
\* page size while on page 1, the table eventually shows the tools of the
\* selected page and page size.
C32_ChosenPageShown == <>[]ShowsChosen

----------------------------------------------------------------------------
(* Properties of calls in flight at the same time *)

\* The answers first and second, in the order the calls resolved, are those
\* of two calls that were pending together: the later one was made before
\* the earlier one resolved
Concurrent(first, second) == second.call.no <= first.issued

\* Two assignTool calls for the same tool and two different employees, the
\* tool unassigned and not overdue when the first of them runs
Race(i, j) ==
    /\ i < j
    /\ last[i].call.toolId = last[j].call.toolId
    /\ last[i].call.employeeId # last[j].call.employeeId
    /\ Concurrent(last[i], last[j])
    /\ IsNullish(last[i].before[last[i].call.toolId].assignedTo)
    /\ ~StrLess(last[i].before[last[i].call.toolId].calibrationDueDate.chars,
                last[i].today.chars)

\* C31: of two concurrent assignTool calls for the same unassigned,
\* non-expired tool and two different stored employees, exactly one returns
\* ok: true, the other returns the already-assigned-to-another-employee
\* error, and the tool ends assigned to the winner.
C31_OneWinner ==
    \A i, j \in DOMAIN last :
        Race(i, j) =>
            /\ last[i].result.ok
            /\ ~last[j].result.ok
            /\ last[j].result.error
                   = ErrOtherEmployee(last[j].call.toolId,
                                      last[i].call.employeeId)
            /\ tools[last[i].call.toolId].assignedTo
                   = Id(last[i].call.employeeId)

\* Both calls were in flight together, and the one made second resolved first
C31_Witness ==
    \E i, j \in DOMAIN last :
        /\ Race(i, j)
        /\ last[j].call.no < last[i].call.no
        /\ last[i].result.ok
        /\ ~last[j].result.ok

----------------------------------------------------------------------------
(* Properties of the two implementations of the engine *)

\* C36: for every sequence of assignTool, reassignTool and unassignTool calls
\* on the same seed, the MockInventorySystem and the InventoryAPI return the
\* same ok / error results and reach the same tool assignment state.
C36_SameEngine ==
    /\ last.result = last.mock
    /\ DOMAIN tools = DOMAIN mockTools
    /\ \A t \in DOMAIN tools :
           /\ tools[t].assignedTo = mockTools[t].assignedTo
           /\ tools[t].assignedOn = mockTools[t].assignedOn

\* An assignment with the empty string for assignedOn has succeeded on both
C36_Witness ==
    /\ last.op = "assign"
    /\ last.assignedOn = Empty
    /\ last.result.ok
    /\ last.mock.ok
    /\ last.mock.tool.assignedOn # Empty
    /\ mockTools[last.toolId].assignedTo = Id(last.employeeId)

====
